---- MODULE Spec2Model ----
(***************************************************************************)
(* A model of the URL-to-image pipeline of LinNlc/URLDate:                 *)
(*   url_tool/microdrama/core/excel_processor.py  (ExcelProcessor)         *)
(*   url_tool/microdrama/core/image_fetcher.py    (fetch, resize, temp)    *)
(*   url_tool/microdrama/core/text_utils.py       (the text functions)     *)
(*   url_tool/microdrama/core/config_store.py     (load_mode, ensure_mode) *)
(*   url_tool/microdrama/core/staff_db.py         (match_staff_id)         *)
(*   excel_converter.py                           (legacy fetcher)         *)
(*                                                                         *)
(* A sheet is a record: max_row, the cells of the modelled columns, the    *)
(* cells given the red fill, and the list of images added to it, in the    *)
(* order of the add_image calls.                                           *)
(***************************************************************************)
EXTENDS Integers, Sequences, FiniteSets, TLC

(***************************************************************************)
(* Bounds of the model                                                     *)
(***************************************************************************)
\* data rows of a small sheet: 0..MaxRows
MaxRows == 2
\* marked (URL-carrying) rows of a large sheet: 0..MaxMarks
MaxMarks == 1
\* the clock int(time.time()) takes the values 0..MaxClock during a run
MaxClock == 1
\* URLs given to download_images_concurrently when checked on its own
MaxTasks == 3
\* max_workers given to it then: 1..MaxSmallPool, or the default
MaxSmallPool == 2

(***************************************************************************)
(* Program constants                                                       *)
(***************************************************************************)
\* process: "data_row_count > 50"
SplitThreshold == 50
\* _process_with_split: "part_size = 50"
part_size == 50
\* _process_sheet: the columns
h_column == 8
g_column == 7
i_column == 9
t_column == 20
v_column == 22
\* "check_content_length(i_cell.value) < 100"
ContentMinLength == 100
\* the column whose values identify a row in this model
key_column == 1
\* download_images_concurrently(urls, max_workers=8) / legacy max_workers=10
CoreMaxWorkers == 8
LegacyMaxWorkers == 10
\* the default of the argument max_workers
DefaultWorkers(fetcher) == IF fetcher = "core" THEN CoreMaxWorkers ELSE LegacyMaxWorkers
DEFAULT_MODE == 1
\* "self._set_row_heights(sheet, 140)" and
\* "column_dimensions[get_column_letter(h_column)].width = 42"
RowHeight == 140
ColumnWidth == 42
\* the width of a column of a new worksheet whose width was never set
DefaultWidth == 13

\* the columns of a sheet that the model keeps
Cols == {key_column, g_column, h_column, i_column, t_column, v_column}

(***************************************************************************)
(* Texts. A text is the sequence of its characters, a character is its     *)
(* Unicode code point. A cell value is a text, Null (None, and the empty   *)
(* text) or a number: Number(n).                                           *)
(***************************************************************************)
Null == <<>>

DigitChars == << "0", "1", "2", "3", "4", "5", "6", "7", "8", "9" >>
UpperChars == << "A", "B", "C", "D", "E", "F", "G", "H", "I", "J", "K", "L", "M", "N", "O", "P", "Q", "R", "S", "T", "U", "V", "W", "X", "Y", "Z" >>
LowerChars == << "a", "b", "c", "d", "e", "f", "g", "h", "i", "j", "k", "l", "m", "n", "o", "p", "q", "r", "s", "t", "u", "v", "w", "x", "y", "z" >>
Punctuation == << " ", "-", ".", "/", ":", "=", "?", "_" >>
PunctuationCodes == << 32, 45, 46, 47, 58, 61, 63, 95 >>

IndexIn(table, c) == CHOOSE i \in DOMAIN table : table[i] = c
InTable(table, c) == \E i \in DOMAIN table : table[i] = c

\* ord(c) of the characters the texts of the model are written with
Ord(c) ==
    IF InTable(DigitChars, c) THEN 47 + IndexIn(DigitChars, c)
    ELSE IF InTable(UpperChars, c) THEN 64 + IndexIn(UpperChars, c)
    ELSE IF InTable(LowerChars, c) THEN 96 + IndexIn(LowerChars, c)
    ELSE PunctuationCodes[IndexIn(Punctuation, c)]

\* the text written with the given characters
Text(chars) == [i \in DOMAIN chars |-> Ord(chars[i])]

\* character classes, as the patterns of "re" have them on str: \d is every
\* decimal digit of Unicode (of which the model has "0".."9" and the
\* Arabic-Indic U+0660..U+0669), and [A-Z] under re.IGNORECASE the 52
\* letters and the four characters whose case folding is one of them
\* (U+0130, U+0131, U+017F, U+212A)
Digit == 48..57 \cup 1632..1641
Upper == 65..90
Lower == 97..122
CaseFolded == {304, 305, 383, 8490}
Letter == Upper \cup Lower \cup CaseFolded
Hyphen == 45
Dot == 46
Slash == 47
Colon == 58
Question == 63
Space == 32
\* the characters str.strip() removes and \s matches
Whitespace == {9, 10, 11, 12, 13, 28, 29, 30, 31, 32, 133, 160, 5760, 8232, 8233,
               8239, 8287, 12288} \cup 8192..8202
\* [一-鿿]
FirstChinese == 19968
LastChinese == 40959
Chinese == FirstChinese..LastChinese

\* a number in a cell, and what the pipeline sees of a value
NumberTag == 0 - 1
Number(n) == << NumberTag, n >>
IsNumber(v) == Len(v) = 2 /\ v[1] = NumberTag

RECURSIVE Decimal(_)
Decimal(n) == IF n < 10 THEN << 48 + n >> ELSE Append(Decimal(n \div 10), 48 + (n % 10))

\* str(value)
Str(v) ==
    IF IsNumber(v)
    THEN IF v[2] < 0 THEN << Hyphen >> \o Decimal(0 - v[2]) ELSE Decimal(v[2])
    ELSE v

\* bool(value): None, "" and 0 are false
Truthy(v) == v # Null /\ v # Number(0)

\* the number of characters at the start of s that are in class
Span(s, class) ==
    CHOOSE n \in 0..Len(s) :
        /\ \A i \in 1..n : s[i] \in class
        /\ n < Len(s) => s[n + 1] \notin class

Reverse(s) == [i \in DOMAIN s |-> s[Len(s) + 1 - i]]

LStrip(s) == SubSeq(s, Span(s, Whitespace) + 1, Len(s))
RStrip(s) == SubSeq(s, 1, Len(s) - Span(Reverse(s), Whitespace))

\* str.strip()
Strip(s) == RStrip(LStrip(s))

\* the lower-case letter a character is matched as under re.IGNORECASE
LowerCase(c) ==
    IF c \in Upper THEN c + 32
    ELSE IF c \in {304, 305} THEN 105
    ELSE IF c = 383 THEN 115
    ELSE IF c = 8490 THEN 107
    ELSE c

\* s starts with prefix, letters compared without case (re.IGNORECASE)
StartsWith(s, prefix) ==
    /\ Len(s) >= Len(prefix)
    /\ \A i \in DOMAIN prefix : LowerCase(s[i]) = prefix[i]

\* the positions of sep in s, and the parts of s between them: s.split(sep)
SepPositions(s, sep) == SelectSeq([i \in 1..Len(s) |-> i], LAMBDA i : s[i] = sep)
Split(s, sep) ==
    LET at == SepPositions(s, sep)
    IN [j \in 1..(Len(at) + 1) |->
            SubSeq(s, (IF j = 1 THEN 0 ELSE at[j - 1]) + 1,
                      (IF j = Len(at) + 1 THEN Len(s) + 1 ELSE at[j]) - 1)]

(***************************************************************************)
(* text_utils.py                                                           *)
(***************************************************************************)
All(s, class) == \A i \in DOMAIN s : s[i] \in class

\* [A-Z0-9](?:[A-Z0-9-]{0,61}[A-Z0-9])?  under re.IGNORECASE
MaxInnerLabel == 61
DomainLabel(l) ==
    /\ Len(l) \in 1..(MaxInnerLabel + 2)
    /\ l[1] \in Letter \cup Digit
    /\ l[Len(l)] \in Letter \cup Digit
    /\ All(l, Letter \cup Digit \cup {Hyphen})

\* [A-Z]{2,6}
MinTld == 2
MaxTld == 6
TopLevelLabel(l) == Len(l) \in MinTld..MaxTld /\ All(l, Letter)

\* (?:label\.)+[A-Z]{2,6}\.?
DomainHost(h) ==
    LET name == IF h # <<>> /\ h[Len(h)] = Dot THEN SubSeq(h, 1, Len(h) - 1) ELSE h
        labels == Split(name, Dot)
    IN /\ Len(labels) >= 2
       /\ TopLevelLabel(labels[Len(labels)])
       /\ \A i \in 1..(Len(labels) - 1) : DomainLabel(labels[i])

LocalHostName == Text(<< "l", "o", "c", "a", "l", "h", "o", "s", "t" >>)

\* \d{1,3}\.\d{1,3}\.\d{1,3}\.\d{1,3}
DottedQuad(h) ==
    LET parts == Split(h, Dot)
    IN /\ Len(parts) = 4
       /\ \A i \in 1..4 : Len(parts[i]) \in 1..3 /\ All(parts[i], Digit)

HostPattern(h) ==
    \/ DomainHost(h)
    \/ Len(h) = Len(LocalHostName) /\ StartsWith(h, LocalHostName)
    \/ DottedQuad(h)

\* (?::\d+)?
PortPattern(p) == p = <<>> \/ (Len(p) >= 2 /\ p[1] = Colon /\ All(Tail(p), Digit))

\* (?:/?|[/?]\S+)$
TailPattern(t) ==
    \/ t = <<>>
    \/ t = << Slash >>
    \/ /\ Len(t) >= 2
       /\ t[1] \in {Slash, Question}
       /\ \A i \in 2..Len(t) : t[i] \notin Whitespace

HttpScheme == Text(<< "h", "t", "t", "p", ":", "/", "/" >>)
HttpsScheme == Text(<< "h", "t", "t", "p", "s", ":", "/", "/" >>)

\* url_pattern.match(t). The host can hold letters, digits, hyphens and
\* dots only and what follows it starts with ":", "/" or "?": the host is
\* the longest run of host characters after the scheme, the port the ":"
\* and the digits after it
UrlPatternMatch(t) ==
    \E scheme \in {HttpScheme, HttpsScheme} :
        /\ StartsWith(t, scheme)
        /\ LET rest == SubSeq(t, Len(scheme) + 1, Len(t))
               hlen == Span(rest, Letter \cup Digit \cup {Hyphen, Dot})
               after == SubSeq(rest, hlen + 1, Len(rest))
               plen == IF after # <<>> /\ after[1] = Colon
                       THEN 1 + Span(Tail(after), Digit) ELSE 0
           IN /\ HostPattern(SubSeq(rest, 1, hlen))
              /\ PortPattern(SubSeq(after, 1, plen))
              /\ TailPattern(SubSeq(after, plen + 1, Len(after)))

\* "if not url or not isinstance(url, str): return False"
is_valid_url(url) ==
    IF ~Truthy(url) \/ IsNumber(url) THEN FALSE ELSE UrlPatternMatch(Strip(url))

\* "if cell_value and is_valid_url(str(cell_value))"
IsUrlCell(cell_value) == Truthy(cell_value) /\ is_valid_url(Str(cell_value))

\* re.findall(r"[一-鿿]+", s): the maximal runs of s in the class,
\* from left to right
FindAllRuns(s, class) ==
    LET starts == SelectSeq([i \in 1..Len(s) |-> i],
                            LAMBDA i : s[i] \in class /\ (i = 1 \/ s[i - 1] \notin class))
    IN [j \in DOMAIN starts |->
            SubSeq(s, starts[j],
                   starts[j] - 1 + Span(SubSeq(s, starts[j], Len(s)), class))]

\* "".join(parts)
RECURSIVE Join(_)
Join(parts) == IF parts = <<>> THEN <<>> ELSE Head(parts) \o Join(Tail(parts))

\* the first run only
extract_chinese_name_FirstRun(name) ==
    IF ~Truthy(name) THEN <<>>
    ELSE LET runs == FindAllRuns(Str(name), Chinese)
         IN IF runs = <<>> THEN <<>> ELSE runs[1]

extract_chinese_name(name) ==
    IF ~Truthy(name) THEN <<>> ELSE Join(FindAllRuns(Str(name), Chinese))

\* "if not text: return 0; return len(str(text).strip())"
check_content_length(text) == IF ~Truthy(text) THEN 0 ELSE Len(Strip(Str(text)))

\* "if not name: return False; return '-' in str(name)"
has_invalid_actor_delimiter(name) ==
    IF ~Truthy(name) THEN FALSE ELSE \E i \in DOMAIN Str(name) : Str(name)[i] = Hyphen

(***************************************************************************)
(* staff_db.py                                                             *)
(***************************************************************************)
\* the dict with the given <<key, value>> items
Dict(items) ==
    [key \in { items[i][1] : i \in DOMAIN items } |->
        items[CHOOSE i \in DOMAIN items : items[i][1] = key][2]]

\* DEFAULT_STAFF: the names by their code points, the values by their characters
DEFAULT_STAFF ==
    Dict(<< << <<26753, 24212, 20255>>, Text(<<"0", "0", "1", "X">>) >>,
            << <<37049, 26519, 20278>>, Text(<<"5", "8", "2", "9">>) >>,
            << <<36213, 24535, 24378>>, Text(<<"7", "2", "9", "9">>) >>,
            << <<26472, 21326>>,        Text(<<"4", "2", "4", "1">>) >>,
            << <<24278, 25919>>,        Text(<<"1", "6", "1", "0">>) >>,
            << <<19975, 20141>>,        Text(<<"1", "7", "4", "X">>) >>,
            << <<20219, 38634, 26757>>, Text(<<"5", "8", "0", "2">>) >>,
            << <<20873, 23567, 23071>>, Text(<<"1", "3", "6", "3">>) >>,
            << <<24352, 38745>>,        Text(<<"8", "5", "2", "5">>) >> >>)

\* the roster store staff_database.json: whether it holds a dict, and the dict
NoStaffFile == [exists |-> FALSE, data |-> Dict(<<>>)]
StaffFile(dict) == [exists |-> TRUE, data |-> dict]

\* load_staff_database(): the dict of the store, or the default roster,
\* which is then written to the store
load_staff_database(file) == IF file.exists THEN file.data ELSE DEFAULT_STAFF
StoreAfterLoad(file) == IF file.exists THEN file ELSE StaffFile(DEFAULT_STAFF)

\* match_staff_id(name, staff_db): None is Null
match_staff_id(name, staff_db, file) ==
    IF ~Truthy(name) THEN Null
    ELSE LET staff == IF DOMAIN staff_db # {} THEN staff_db ELSE load_staff_database(file)
             chinese_name == extract_chinese_name(name)
         IN IF chinese_name = <<>> THEN Null
            ELSE IF chinese_name \in DOMAIN staff THEN staff[chinese_name] ELSE Null

\* the load_staff_database calls that match_staff_id makes over the given
\* rows: one for each name that is not empty, if the staff_db passed is
\* falsy ("staff = staff_db or load_staff_database()")
RosterReloads(rows, roster) ==
    IF DOMAIN roster # {} THEN 0
    ELSE Cardinality({ r \in DOMAIN rows : Truthy(rows[r][t_column]) })

(***************************************************************************)
(* Input workbooks                                                         *)
(***************************************************************************)
\* "http://a.cn/1.jpg", " https://b.cn/2.jpg ", "ftp://x.com/1.jpg",
\* "http://g.cn/g.jpg"
U1 == HttpScheme \o Text(<< "a", ".", "c", "n", "/", "1", ".", "j", "p", "g" >>)
U2 == << Space >> \o HttpsScheme
      \o Text(<< "b", ".", "c", "n", "/", "2", ".", "j", "p", "g" >>) \o << Space >>
T1 == Text(<< "f", "t", "p", ":", "/", "/", "x", ".", "c", "o", "m", "/", "1", ".",
              "j", "p", "g" >>)
UG == HttpScheme \o Text(<< "g", ".", "c", "n", "/", "g", ".", "j", "p", "g" >>)

\* Chinese names, by their code points: Zhang Jing, Li Si, Wang Fang, Li Ming
ZhangJing == << 24352, 38745 >>
LiSi == << 26446, 22235 >>
WangFang == << 29579, 33459 >>
LiMing == << 26446, 26126 >>
\* "fu shen" (second review)
FuShen == << 22797, 23457 >>
\* "John-5829"
John5829 == Text(<< "J", "o", "h", "n", "-", "5", "8", "2", "9" >>)
\* a value column 22 may hold before the run
OldId == Text(<< "0", "0", "0", "0" >>)
Id8525 == Text(<< "8", "5", "2", "5" >>)

\* a content text of n characters
Content(n) == [j \in 1..n |-> 26126]
Padded(text) == << Space >> \o text \o << Space >>

\* the values of the columns 7, 9, 20 and 22 of a data row
Row(g, i, t, v) == [g |-> g, i |-> i, t |-> t, v |-> v]
BlankRow == Row(Null, Null, Null, Null)

\* the data rows that are not blank in these columns, and what they hold
ProfiledRows == << 1, 2, 3, 50, 51, 100, 101 >>
Profiles ==
    << Row(WangFang \o << Hyphen >> \o LiMing, Content(3),
           ZhangJing \o << Hyphen >> \o FuShen, Null),
       Row(WangFang, << Space, Space >>, LiSi, OldId),
       Row(Null, Number(0), John5829, Null),
       Row(WangFang \o << Hyphen >> \o LiMing, Content(ContentMinLength - 1),
           ZhangJing, OldId),
       Row(Number(0 - 5), Content(ContentMinLength), Null, OldId),
       Row(Null, Padded(Content(ContentMinLength - 1)),
           ZhangJing \o << Hyphen >> \o FuShen, Null),
       Row(WangFang, Padded(Content(ContentMinLength)), LiSi, Null) >>

RowProfile(d) ==
    IF \E j \in DOMAIN ProfiledRows : ProfiledRows[j] = d
    THEN Profiles[CHOOSE j \in DOMAIN ProfiledRows : ProfiledRows[j] = d]
    ELSE BlankRow

HeaderCell(c) == Text(<< "h", "d", "r" >>) \o Decimal(c)
KeyCell(r) == Text(<< "r", "o", "w" >>) \o Decimal(r)

\* the last column of a sheet that has all the columns the run reads and
\* writes, and the row height and column width the source sheets come with
LastColumn == v_column
SourceHeight == 15
SourceWidth == 10

\* a sheet of n data rows; g and h give the values of columns 7 and 8 of
\* the data rows 1..n (data row d is sheet row d + 1); fills is the set of
\* the cells <<row, column>> the run has given the solid red fill;
\* max_column is the sheet's column count; the cells of the rows
\* 1..centered.rows and the columns 1..centered.cols have been given the
\* alignment center/center; heights and widths are the row heights and the
\* column widths
MkSheet(title, n, g, h) ==
    [ title   |-> title,
      max_row |-> n + 1,
      cells   |-> [r \in 1..(n + 1) |->
                    IF r = 1
                    THEN [c \in Cols |-> HeaderCell(c)]
                    ELSE [c \in Cols |->
                            IF c = key_column THEN KeyCell(r)
                            ELSE IF c = g_column THEN g[r - 1]
                            ELSE IF c = h_column THEN h[r - 1]
                            ELSE IF c = i_column THEN RowProfile(r - 1).i
                            ELSE IF c = t_column THEN RowProfile(r - 1).t
                            ELSE RowProfile(r - 1).v]],
      fills   |-> {},
      images  |-> <<>>,
      max_column |-> LastColumn,
      centered   |-> [rows |-> 0, cols |-> 0],
      heights    |-> [r \in 1..(n + 1) |-> SourceHeight],
      widths     |-> [c \in Cols |-> SourceWidth] ]

HSamples == {Null, U1, U2, T1}

\* small sheets: every value of column 8 drawn from HSamples
SmallSheet(title, h) ==
    MkSheet(title, Len(h), [d \in 1..Len(h) |-> RowProfile(d).g], h)

SmallSheets ==
    { SmallSheet("S1", h) : h \in UNION { [1..m -> HSamples] : m \in 0..MaxRows } }

\* large sheets: n data rows, column 8 empty except at the marked rows; a
\* mark is <<data row, column>> and puts a URL there
ProbeRows(n) == {1, part_size, part_size + 1, n} \cap 1..n
MarkUrl(c) == IF c = g_column THEN UG ELSE U1
Marks(n) ==
    { m \in SUBSET (ProbeRows(n) \X {g_column, h_column}) : Cardinality(m) <= MaxMarks }

LargeSheet(title, n, m) ==
    MkSheet(title, n,
            [d \in 1..n |-> IF <<d, g_column>> \in m THEN MarkUrl(g_column)
                            ELSE RowProfile(d).g],
            [d \in 1..n |-> IF <<d, h_column>> \in m THEN MarkUrl(h_column) ELSE Null])

BigCounts == {SplitThreshold, SplitThreshold + 1, 2 * part_size, 2 * part_size + 1}

LargeSheets == UNION { { LargeSheet("S1", n, m) : m \in Marks(n) } : n \in BigCounts }

\* a sheet that ends at column 20: it has no cell in column 22
Narrow(sheet) ==
    [sheet EXCEPT !.max_column = t_column,
                  !.cells = [r \in DOMAIN @ |-> [@[r] EXCEPT ![v_column] = Null]]]

NarrowSheets == { Narrow(LargeSheet("S1", SplitThreshold + 1, {})) }

SecondSheets == { SmallSheet("S2", <<U1>>), SmallSheet("S2", <<UG>>), SmallSheet("S2", <<T1>>) }

\* the workbooks a run may be given: the sheets in workbook order
SmallBooks ==
    { <<s>> : s \in SmallSheets }
    \cup { <<s1, s2>> : s1 \in { s \in SmallSheets : s.max_row = 2 }, s2 \in SecondSheets }

LargeBooks == { <<s>> : s \in LargeSheets \cup NarrowSheets }

\* workbooks of a sheet to split and a small one, in both orders
MixedBooks ==
    LET big == LargeSheet("S1", SplitThreshold + 1, {<<1, g_column>>})
        small == SmallSheet("S2", <<U2>>)
    IN { <<big, small>>, <<small, big>> }

\* <<mode argument of process (0: None), content of config.ini (0: missing)>>
ModeInputs == { <<0, 2>>, <<0, 3>>, <<1, 2>>, <<2, 1>> }

\* for the small workbooks, whose route does not depend on the mode: one
\* input giving mode 1 and one giving mode 2
SmallModeInputs == { <<1, 2>>, <<0, 2>> }

Inputs ==
    (SmallBooks \X SmallModeInputs) \cup (LargeBooks \X ModeInputs)
    \cup (MixedBooks \X { <<1, 2>> })

\* the callbacks given to ExcelProcessor: both, in the runs whose mode comes
\* from the configuration, and none in the runs given a mode
CallbacksOf(in) == in[2][1] = 0

\* the roster store of a run
StaffFiles == { StaffFile(Dict(<< << ZhangJing, Id8525 >> >>)) }

\* what the run of a workbook may find as << TEMP_DIR exists, the files in
\* it >>: no directory; for the workbooks of one sheet with at most one data
\* row also an empty directory and one that holds a file
TempDirsOf(book) ==
    IF Len(book) = 1 /\ book[1].max_row <= 2
    THEN { << FALSE, {} >>, << TRUE, {} >>, << TRUE, {"other.jpg"} >> }
    ELSE { << FALSE, {} >> }

\* the roster stores the run of a workbook may find: for the workbook of the
\* narrow sheet also one that holds the empty dict, and none
StaffFilesOf(book) ==
    IF book[1] \in NarrowSheets
    THEN StaffFiles \cup {StaffFile(Dict(<<>>)), NoStaffFile}
    ELSE StaffFiles

(***************************************************************************)
(* config_store.py                                                         *)
(***************************************************************************)
\* config.ini: whether the file exists, whether config.read parses it, and
\* the text of the option "mode" of its section DEFAULT (the empty text: the
\* file has no such option, or the option has no value)
ConfigFile(exists, readable, text) ==
    [exists |-> exists, readable |-> readable, mode |-> text]
NoConfig == ConfigFile(FALSE, FALSE, <<>>)
BadConfig == ConfigFile(TRUE, FALSE, <<>>)
ConfigHolding(text) == ConfigFile(TRUE, TRUE, text)

\* int(text) of Python: blanks around, a sign, then decimal digits (of any
\* script); anything else is a ValueError
PlusSign == 43
IntBody(text) ==
    LET t == Strip(text)
    IN IF t # <<>> /\ t[1] \in {PlusSign, Hyphen} THEN Tail(t) ELSE t
IsIntText(text) == IntBody(text) # <<>> /\ All(IntBody(text), Digit)
DigitValue(c) == IF c >= 1632 THEN c - 1632 ELSE c - 48
RECURSIVE DigitsValue(_)
DigitsValue(ds) ==
    IF ds = <<>> THEN 0
    ELSE 10 * DigitsValue(SubSeq(ds, 1, Len(ds) - 1)) + DigitValue(ds[Len(ds)])
int(text) ==
    LET t == Strip(text)
    IN IF t[1] = Hyphen THEN 0 - DigitsValue(IntBody(text)) ELSE DigitsValue(IntBody(text))

\* a load_mode that returns whatever number the file holds
load_mode_Unchecked(cfg) ==
    IF cfg.exists /\ cfg.readable /\ IsIntText(cfg.mode) THEN int(cfg.mode)
    ELSE DEFAULT_MODE

\* load_mode: the mode read by getint (fallback DEFAULT_MODE for a missing
\* option) if it is 1 or 2; DEFAULT_MODE if the file is missing, if reading
\* or getint raises, or for any other number
load_mode(cfg) ==
    LET mode == IF cfg.mode = <<>> THEN DEFAULT_MODE ELSE int(cfg.mode)
    IN IF /\ cfg.exists
          /\ cfg.readable
          /\ cfg.mode # <<>> => IsIntText(cfg.mode)
          /\ mode \in {1, 2}
       THEN mode
       ELSE DEFAULT_MODE

\* how the write of save_mode can end: done; mkdir or open raises and the
\* file is as before; the write raises after open("w") has emptied the file
ConfigWriteOutcomes == {"ok", "fail_open", "fail_write"}

\* save_mode: the file holds "mode = " and str(mode)
save_mode(cfg, mode, how) ==
    IF how = "ok" THEN ConfigHolding(Decimal(mode))
    ELSE IF how = "fail_write" THEN ConfigHolding(<<>>)
    ELSE cfg

\* ensure_mode: "if mode not in (1, 2): mode = DEFAULT_MODE"
ValidMode(mode) == IF mode \in {1, 2} THEN mode ELSE DEFAULT_MODE

\* the file of a run, by the number it holds (0: there is no file)
ConfigOf(n) == IF n = 0 THEN NoConfig ELSE ConfigHolding(Decimal(n))

(***************************************************************************)
(* State                                                                   *)
(***************************************************************************)
VARIABLES
    file_wb,      \* the input file: its sheets, in workbook order
    file_active,  \* the input file: the index of its active sheet
    arg_mode,     \* the mode argument of process (0: None)
    cfg_file,     \* the content of config.ini
    pc,           \* the position of the orchestrating thread
    mode,         \* process: the local "mode"
    loads,        \* the load_workbook calls made, by strategy
    logged,       \* the URLs that the log events so far identify
    workbook,     \* the workbook in memory (<<>> before a load succeeds)
    route,        \* "none", "split" or "whole": the branch process took
    cur,          \* whole mode: index of the sheet in work; split: part_index
    urls,         \* the local "urls"
    url_rows,     \* url_rows (sheet rows) / url_index_map (0-based data rows)
    header,       \* split: the local "header"
    data_rows,    \* split: the local "data_rows"
    k,            \* position of the normalisation loop in url_rows
    image_paths,  \* image_paths / resized_cache: row -> path
    download_results, \* the map download_images_concurrently returned
    temp_files,   \* self._temp_files
    registered,   \* every path appended to self._temp_files during the run
    warnings,     \* the paths of the "delete failed" warnings of _cleanup
    disk,         \* the files of TEMP_DIR that the run wrote: path -> content
    temp_dir,     \* TEMP_DIR exists
    other_files,  \* the files of TEMP_DIR that are not of the run
    outputs,      \* the output files on disk, in the order of the saves
    output_files, \* the local "output_files"
    exit,         \* how the try block of process was left
    result,       \* what process gave its caller
    cleanups,     \* number of _cleanup calls made
    now,          \* int(time.time())
    impl,         \* the fetcher in use: "core" or "legacy"
    max_workers,  \* the argument max_workers of download_images_concurrently
    fetching,     \* a call of download_images_concurrently is in progress
    tasks,        \* fetcher: the local "tasks" (the URLs, in order)
    tstate,       \* fetcher: per task "queued", "running" or "done"
    got,          \* fetcher: per task what download_image returned
    gets,         \* fetcher: per task the number of HTTP GETs issued
    done_q,       \* fetcher: the tasks in the order they completed
    ncollected,   \* fetcher: number of results the caller's loop has stored
    results,      \* fetcher: the local "results"
    calls,        \* number of download_images_concurrently calls of the run
    pools,        \* number of ThreadPoolExecutor objects created by the run
    staff_file,   \* the roster store staff_database.json
    staff_db,     \* the local "staff_db"
    roster_loads, \* the load_staff_database calls made so far
    logger_callback,   \* a logger_callback was given to ExcelProcessor
    progress_callback, \* a progress_callback was given to ExcelProcessor
    error,        \* the exception that left the try block of process
    fn,           \* a text function called on its own: its name
    arg,          \* its argument
    ret,          \* what it returned
    response,     \* download_image called on its own: what requests.get gave
    temp_path,    \* legacy script: the local "temp_path" of the converting function
    main_temp_files  \* legacy script: the local "temp_files" of main

vars == << file_wb, file_active, arg_mode, cfg_file, pc, mode, loads, logged, workbook, route, cur,
           urls, url_rows, header, data_rows, k, image_paths, download_results,
           temp_files, registered, warnings, disk, temp_dir, other_files, outputs, output_files, exit,
           result, cleanups, now, impl, max_workers, fetching, tasks, tstate, got, gets, done_q, ncollected, results,
           calls, pools, staff_file, staff_db, roster_loads, logger_callback, progress_callback, error,
           fn, arg, ret, response, temp_path, main_temp_files >>

textVars  == << fn, arg, ret, response >>
staffVars == << staff_file, staff_db, roster_loads >>
legacyVars == << temp_path, main_temp_files >>
inputVars == << file_wb, file_active, arg_mode, cfg_file, logger_callback,
               progress_callback, textVars >>
fetchVars == << fetching, tasks, tstate, got, gets, done_q, ncollected, results, calls, pools >>
loopVars  == << urls, url_rows, header, data_rows, k, image_paths, download_results >>
fileVars  == << temp_files, registered, warnings, disk, temp_dir, other_files, now >>
\* everything but the fetcher's own state
procVars  == << inputVars, legacyVars, pc, mode, loads, staffVars, workbook, route, cur, loopVars,
               fileVars, outputs, output_files, exit, error, result, cleanups, impl, max_workers >>
orchVars  == << procVars, logged >>

EmptyMap == <<>>

\* what requests.get(url, headers=HEADERS, timeout=timeout) can give: an
\* exception (no connection, timeout), or a response with a status, a
\* content-type header ("" when the header is missing) and a body, which
\* decodes as an image ("img") or does not ("junk")
StatusSamples == {200, 399, 400, 404, 599}
ContentTypeSamples ==
    { Text(<< "i", "m", "a", "g", "e", "/", "j", "p", "e", "g" >>),
      Text(<< "I", "m", "a", "g", "e", "/", "P", "N", "G" >>),
      Text(<< "t", "e", "x", "t", "/", "h", "t", "m", "l" >>),
      Text(<< " ", "i", "m", "a", "g", "e", "/", "p", "n", "g" >>),
      Text(<< "i", "m", "a", "g", "e" >>),
      <<>> }
TimedOut == [raised |-> TRUE, status_code |-> 0, content_type |-> <<>>, content |-> "junk"]
Responses ==
    {TimedOut} \cup
    [raised : {FALSE}, status_code : StatusSamples, content_type : ContentTypeSamples,
     content : {"img", "junk"}]

Init ==
    /\ \E in \in Inputs :
        /\ file_wb = in[1]
        /\ arg_mode = in[2][1]
        /\ cfg_file = ConfigOf(in[2][2])
        /\ logger_callback = CallbacksOf(in)
        /\ progress_callback = CallbacksOf(in)
    /\ file_active \in 1..Len(file_wb)
    /\ pc = "start"
    /\ mode = 0
    /\ loads = <<>>
    /\ logged = {}
    /\ workbook = <<>>
    /\ route = "none"
    /\ cur = 0
    /\ urls = <<>>
    /\ url_rows = <<>>
    /\ header = <<>>
    /\ data_rows = <<>>
    /\ k = 0
    /\ image_paths = EmptyMap
    /\ download_results = EmptyMap
    /\ temp_files = <<>>
    /\ registered = {}
    /\ warnings = {}
    /\ disk = EmptyMap
    /\ \E found \in TempDirsOf(file_wb) : temp_dir = found[1] /\ other_files = found[2]
    /\ outputs = <<>>
    /\ output_files = <<>>
    /\ exit = "none"
    /\ result = "none"
    /\ cleanups = 0
    /\ now = 0
    /\ impl = "core"
    /\ max_workers = DefaultWorkers("core")
    /\ fetching = FALSE
    /\ tasks = <<>>
    /\ tstate = <<>>
    /\ got = <<>>
    /\ gets = <<>>
    /\ done_q = <<>>
    /\ ncollected = 0
    /\ results = EmptyMap
    /\ calls = 0
    /\ pools = 0
    /\ staff_file \in StaffFilesOf(file_wb)
    /\ staff_db = Dict(<<>>)
    /\ roster_loads = 0
    /\ temp_path = Null
    /\ main_temp_files = <<>>
    /\ error = "none"
    /\ fn = "none"
    /\ arg = Null
    /\ response = TimedOut
    /\ ret = Null

(***************************************************************************)
(* Helpers                                                                 *)
(***************************************************************************)
Max(a, b) == IF a >= b THEN a ELSE b
Min(a, b) == IF a <= b THEN a ELSE b

\* bytes are a record: what they are and the URL they were served for
None == [kind |-> "none", url |-> Null]

\* dict.get(key)
Get(map, key) == IF key \in DOMAIN map THEN map[key] ELSE None

\* map[key] = value
Put(map, key, value) == [x \in DOMAIN map \cup {key} |-> IF x = key THEN value ELSE map[x]]

\* str.lower(), on the letters the texts of the model are written with
StrLower(s) == [i \in DOMAIN s |-> IF s[i] \in Upper THEN s[i] + 32 ELSE s[i]]

\* str.startswith(prefix)
HasPrefix(s, prefix) ==
    Len(s) >= Len(prefix) /\ SubSeq(s, 1, Len(prefix)) = prefix

\* Response.raise_for_status() raises HTTPError
ErrorStatus(status_code) == status_code >= 400 /\ status_code < 600

ImagePrefix == Text(<< "i", "m", "a", "g", "e", "/" >>)

\* a download that takes the content-type header as it is written
download_image_CaseSensitive(url, resp) ==
    IF resp.raised \/ ErrorStatus(resp.status_code) THEN None
    ELSE IF ~HasPrefix(resp.content_type, ImagePrefix) THEN None
    ELSE [kind |-> resp.content, url |-> url]

\* download_image(url) when requests.get gives resp: an exception of
\* requests.get or of raise_for_status is caught and gives None
download_image(url, resp) ==
    IF resp.raised \/ ErrorStatus(resp.status_code) THEN None
    ELSE IF ~HasPrefix(StrLower(resp.content_type), ImagePrefix) THEN None
    ELSE [kind |-> resp.content, url |-> url]

\* download_image(url) logs "download failed", the URL and the exception
\* when requests.get or raise_for_status raises
LogsFailure(resp) == resp.raised \/ ErrorStatus(resp.status_code)

\* whether download_image has logged a warning when it returns o: it has
\* or has not when it returns None (an exception, or a content type that
\* is no image), and has not when it returns bytes
Warned(o) ==
    { LogsFailure(resp) :
        resp \in { r \in Responses : download_image(Null, r).kind = o.kind } }

\* what download_image can return, whatever the URL: None, the bytes of an
\* image, or bytes served as image/* that do not decode
Outcomes == { download_image(Null, resp).kind : resp \in Responses }

\* what download_image(url) can return
Fetched(url) == { IF o = "none" THEN None ELSE [kind |-> o, url |-> url] : o \in Outcomes }

(***************************************************************************)
(* image_fetcher.py                                                        *)
(***************************************************************************)

Running == { i \in 1..Len(tasks) : tstate[i] = "running" }

\* download_images_concurrently(urls): the call is entered; the core
\* fetcher returns at once for an empty list, without a pool
Submit(url_list) ==
    /\ tasks' = url_list
    /\ tstate' = [i \in 1..Len(url_list) |-> "queued"]
    /\ got' = [i \in 1..Len(url_list) |-> [kind |-> "pending", url |-> Null]]
    /\ gets' = [i \in 1..Len(url_list) |-> 0]
    /\ done_q' = <<>>
    /\ ncollected' = 0
    /\ results' = EmptyMap
    /\ fetching' = TRUE
    /\ calls' = calls + 1
    /\ pools' = IF impl = "core" /\ url_list = <<>> THEN pools ELSE pools + 1

\* a pool that starts a thread for every task
WorkerStart_Unbounded(i) ==
    /\ fetching
    /\ i \in 1..Len(tasks)
    /\ tstate[i] = "queued"
    /\ tstate' = [tstate EXCEPT ![i] = "running"]
    /\ gets' = [gets EXCEPT ![i] = @ + 1]
    /\ UNCHANGED << fetching, tasks, got, done_q, ncollected, results, calls, pools >>

\* a pool thread takes a queued task and issues its HTTP GET; the pool has
\* max_workers threads, each with one task at a time
WorkerStart(i) ==
    /\ fetching
    /\ i \in 1..Len(tasks)
    /\ tstate[i] = "queued"
    /\ Cardinality(Running) < max_workers
    /\ tstate' = [tstate EXCEPT ![i] = "running"]
    /\ gets' = [gets EXCEPT ![i] = @ + 1]
    /\ UNCHANGED << fetching, tasks, got, done_q, ncollected, results, calls, pools >>

\* a download that is queued again when it failed
WorkerFinish_Retry(i, o) ==
    /\ fetching
    /\ i \in 1..Len(tasks)
    /\ tstate[i] = "running"
    /\ IF o = None /\ gets[i] < 2
       THEN /\ tstate' = [tstate EXCEPT ![i] = "queued"]
            /\ UNCHANGED << got, done_q >>
       ELSE /\ tstate' = [tstate EXCEPT ![i] = "done"]
            /\ got' = [got EXCEPT ![i] = o]
            /\ done_q' = Append(done_q, i)
    /\ UNCHANGED << fetching, tasks, gets, ncollected, results, calls, pools >>

\* download_image returns o for task i
WorkerFinish(i, o) ==
    /\ fetching
    /\ i \in 1..Len(tasks)
    /\ tstate[i] = "running"
    /\ tstate' = [tstate EXCEPT ![i] = "done"]
    /\ got' = [got EXCEPT ![i] = o]
    /\ done_q' = Append(done_q, i)
    /\ UNCHANGED << fetching, tasks, gets, ncollected, results, calls, pools >>

\* the task whose result the caller's loop takes next: executor.map yields
\* in submission order, as_completed in completion order
NextYield ==
    IF impl = "core"
    THEN IF ncollected < Len(tasks) /\ tstate[ncollected + 1] = "done"
         THEN {ncollected + 1} ELSE {}
    ELSE IF ncollected < Len(done_q) THEN {done_q[ncollected + 1]} ELSE {}

\* the result stored under its position of arrival
ResultKey_ByArrival(i) == ncollected

\* the index under which the result of task i is stored: the idx its worker
\* returned with it (0-based)
ResultKey(i) == i - 1

\* "results[idx] = image_data" in the calling thread
Collect ==
    /\ fetching
    /\ \E i \in NextYield :
        /\ results' = Put(results, ResultKey(i), got[i])
        /\ ncollected' = ncollected + 1
    /\ UNCHANGED << tasks, tstate, got, gets, done_q, fetching, calls, pools >>

\* a call that returns with the first result
FetchComplete_Early == fetching /\ (ncollected >= 1 \/ Len(tasks) = 0)

\* a call that returns only once every task has given an image
FetchComplete_NeedsEveryImage ==
    fetching /\ ncollected = Len(tasks) /\ \A i \in DOMAIN got : got[i] # None

\* the call may return: every result was taken (the pool is shut down with
\* wait=True, all its tasks are done)
FetchComplete == fetching /\ ncollected = Len(tasks)


\* resize_image: None for bytes that do not decode, else the JPEG made of them
resize_image(image_data) ==
    IF image_data.kind = "img" THEN [kind |-> "jpeg", url |-> image_data.url] ELSE None

\* save_temp_image: the path temp_image_{identifier}_{int(time.time())}.jpg
TempPath(identifier, t) == [identifier |-> identifier, t |-> t]

\* "directory.mkdir(parents=True, exist_ok=True)": the directory is there
\* afterwards, unless the mkdir itself is what fails
mkdir(exists, how) == IF how = "fail_open" THEN {exists, TRUE} ELSE {TRUE}

\* how a save_temp_image call can end: the file written; an exception before
\* the file exists (mkdir, open); an exception while writing (the file is
\* there, truncated)
WriteOutcomes == {"ok", "fail_open", "fail_write"}

save_temp_image(files, image_bytes, identifier, t, how) ==
    IF how = "fail_open" THEN files
    ELSE Put(files, TempPath(identifier, t),
             IF how = "ok" THEN image_bytes ELSE [image_bytes EXCEPT !.kind = "partial"])

(***************************************************************************)
(* excel_processor.py: sheet operations                                    *)
(***************************************************************************)
DataRowCount(sheet) == Max(sheet.max_row - 1, 0)

\* "for row in range(2, sheet.max_row + 1): if cell_value and is_valid_url":
\* the rows 2..max_row whose text in column col is a valid URL, ascending
UrlRowsOf(sheet, col) ==
    SelectSeq([i \in 1..(sheet.max_row - 1) |-> i + 1],
              LAMBDA row : IsUrlCell(sheet.cells[row][col]))

\* _process_sheet: "cell_value = sheet.cell(row=row, column=h_column).value"
SheetUrlRows(sheet) == UrlRowsOf(sheet, h_column)

\* "if i_cell.value and check_content_length(i_cell.value) < 100"
ContentFlagged(value) ==
    Truthy(value) /\ check_content_length(value) < ContentMinLength

\* an actor flagged for any value
ActorFlagged_NonEmpty(value) == Truthy(value)

\* "if g_cell.value and has_invalid_actor_delimiter(g_cell.value)"
ActorFlagged(value) == Truthy(value) /\ has_invalid_actor_delimiter(value)

\* row checks of which the first that fires ends the checks of its row
AnnotateRows_ShortCircuit(sheet, roster, file) ==
    LET rows == 2..sheet.max_row
        content(r) == ContentFlagged(sheet.cells[r][i_column])
        actor(r) == ~content(r) /\ ActorFlagged(sheet.cells[r][g_column])
        matched_id(row) == match_staff_id(sheet.cells[row][t_column], roster, file)
    IN [sheet EXCEPT
          !.max_column = IF sheet.max_row >= 2 THEN Max(@, v_column) ELSE @,
          !.fills = @ \cup { <<row, i_column>> : row \in { r \in rows : content(r) } }
                      \cup { <<row, g_column>> : row \in { r \in rows : actor(r) } },
          !.cells = [r \in DOMAIN @ |->
                        IF r \in rows /\ ~content(r) /\ ~actor(r) /\ Truthy(matched_id(r))
                        THEN [@[r] EXCEPT ![v_column] = matched_id(r)]
                        ELSE @[r]]]

\* row checks that write what the lookup gave, None included
AnnotateRows_AlwaysWrite(sheet, roster, file) ==
    LET rows == 2..sheet.max_row
        matched_id(row) == match_staff_id(sheet.cells[row][t_column], roster, file)
    IN [sheet EXCEPT
          !.max_column = IF sheet.max_row >= 2 THEN Max(@, v_column) ELSE @,
          !.fills = @ \cup { <<row, i_column>> :
                                row \in { r \in rows : ContentFlagged(sheet.cells[r][i_column]) } }
                      \cup { <<row, g_column>> :
                                row \in { r \in rows : ActorFlagged(sheet.cells[r][g_column]) } },
          !.cells = [r \in DOMAIN @ |->
                        IF r \in rows
                        THEN [@[r] EXCEPT ![v_column] = matched_id(r)]
                        ELSE @[r]]]

\* the loop of the three row checks over the rows 2..max_row: the cells of
\* columns 9 and 7 that are given the red fill, and column 22 set to the
\* id matched for column 20 ("if matched_id: v_cell.value = matched_id")
AnnotateRows(sheet, roster, file) ==
    LET rows == 2..sheet.max_row
        matched_id(row) == match_staff_id(sheet.cells[row][t_column], roster, file)
    IN [sheet EXCEPT
          !.max_column = IF sheet.max_row >= 2 THEN Max(@, v_column) ELSE @,
          !.fills = @ \cup { <<row, i_column>> :
                                row \in { r \in rows : ContentFlagged(sheet.cells[r][i_column]) } }
                      \cup { <<row, g_column>> :
                                row \in { r \in rows : ActorFlagged(sheet.cells[r][g_column]) } },
          !.cells = [r \in DOMAIN @ |->
                        IF r \in rows /\ Truthy(matched_id(r))
                        THEN [@[r] EXCEPT ![v_column] = matched_id(r)]
                        ELSE @[r]]]

\* a clearing that stops after the first data row
ClearColumn_FirstRow(sheet, col) ==
    [sheet EXCEPT
        !.max_column = IF sheet.max_row >= 2 THEN Max(@, col) ELSE @,
        !.cells =
            [r \in DOMAIN @ |-> IF r = 2 THEN [@[r] EXCEPT ![col] = Null] ELSE @[r]]]

\* "for row in range(2, max_row + 1): sheet.cell(row, 8).value = None"
ClearColumn(sheet, col) ==
    [sheet EXCEPT
        !.max_column = IF sheet.max_row >= 2 THEN Max(@, col) ELSE @,
        !.cells =
            [r \in DOMAIN @ |-> IF r >= 2 THEN [@[r] EXCEPT ![col] = Null] ELSE @[r]]]

\* the double loop over range(1, max_row + 1) and range(1, max_column + 1)
\* that gives each cell Alignment(horizontal="center", vertical="center")
_set_cell_alignment(sheet) ==
    [sheet EXCEPT !.centered = [rows |-> sheet.max_row, cols |-> sheet.max_column]]

\* "for row in range(1, sheet.max_row + 1):
\*      sheet.row_dimensions[row].height = height"
_set_row_heights(sheet, height) ==
    [sheet EXCEPT !.heights =
        [r \in DOMAIN @ \cup 1..sheet.max_row |->
            IF r <= sheet.max_row THEN height ELSE @[r]]]

\* the column widths and the row heights of the source sheet, given to the
\* sheet of a part
_copy_sheet_formatting(source_sheet, target_sheet) ==
    [target_sheet EXCEPT
        !.widths = [c \in Cols |-> IF c <= source_sheet.max_column
                                   THEN source_sheet.widths[c] ELSE @[c]],
        !.heights = source_sheet.heights]

\* "self._set_cell_alignment(sheet); self._set_row_heights(sheet, 140);
\*  sheet.column_dimensions[get_column_letter(h_column)].width = 42"
FormatSheet(sheet) ==
    [_set_row_heights(_set_cell_alignment(sheet), RowHeight)
        EXCEPT !.widths = [@ EXCEPT ![h_column] = ColumnWidth]]

\* the add_image calls of one embedding loop: entry i of rows is the key of
\* the path map, entry i of anchors the sheet row the image is anchored at
\* the images anchored by their count, not by their row
AddImages_ByCount(images, rows, anchors, paths, files) ==
    LET hit == SelectSeq([i \in 1..Len(rows) |-> i],
                         LAMBDA i : /\ rows[i] \in DOMAIN paths
                                    /\ paths[rows[i]] \in DOMAIN files)
    IN images \o [j \in 1..Len(hit) |->
                    [col |-> h_column, row |-> anchors[j],
                     path |-> paths[rows[hit[j]]]]]

AddImages(images, rows, anchors, paths, files) ==
    LET hit == SelectSeq([i \in 1..Len(rows) |-> i],
                         LAMBDA i : /\ rows[i] \in DOMAIN paths
                                    /\ paths[rows[i]] \in DOMAIN files)
    IN images \o [j \in 1..Len(hit) |->
                    [col |-> h_column, row |-> anchors[hit[j]],
                     path |-> paths[rows[hit[j]]]]]

\* Workbook.save: an image is stored with the bytes its file holds then
SavedSheet(sheet, files) ==
    [sheet EXCEPT !.images =
        [i \in DOMAIN @ |-> [col |-> @[i].col, row |-> @[i].row,
                             data |-> IF @[i].path \in DOMAIN files
                                      THEN files[@[i].path]
                                      ELSE [kind |-> "missing", url |-> Null]]]]

SavedBook(sheets, files) == [i \in DOMAIN sheets |-> SavedSheet(sheets[i], files)]

ConvertedName == [kind |-> "converted", n |-> 0]
PartName(n) == [kind |-> "part", n |-> n]

\* a save that leaves its file also when it fails
workbook_save_Partial(files, name, sheets, ok) ==
    Append(files, [name |-> name, sheets |-> sheets])

\* a failed save that takes the files saved before with it
workbook_save_Rollback(files, name, sheets, ok) ==
    IF ok THEN Append(files, [name |-> name, sheets |-> sheets]) ELSE <<>>

\* Workbook.save(output_path): the output files after the call; a save
\* that fails leaves no file
workbook_save(files, name, sheets, ok) ==
    IF ok THEN Append(files, [name |-> name, sheets |-> sheets]) ELSE files

\* every file of a split named "_converted"
output_path_Converted(total, part_index) == ConvertedName

\* _process_with_split, the name of the file of a part:
\* "_part{part_index}" if total > part_size else "_converted"
output_path(total, part_index) ==
    IF total > part_size THEN PartName(part_index) ELSE ConvertedName

(***************************************************************************)
(* excel_processor.py: ExcelProcessor.process                              *)
(***************************************************************************)
\* a workbook whose active sheet is always its first
workbook_active_First(book, index) == book[1]

\* "workbook.active": the sheet at the workbook's active index
workbook_active(book, index) == book[index]

\* an exception that leaves process without the finally clause
Raise_NoFinally ==
    /\ exit' = "raise"
    /\ pc' = "done"

\* leave the try block of process by an exception
Raise ==
    /\ exit' = "raise"
    /\ pc' = "cleanup"

\* _emit_log, _emit_progress: whether a call of them raises. With a callback
\* given they call it, and what it does is its own; without one they call a
\* logger method or an empty lambda
EmitRaises(callback) == IF callback THEN BOOLEAN ELSE {FALSE}

\* "mode = mode or load_mode()"
Begin ==
    /\ pc = "start"
    /\ mode' = IF arg_mode # 0 THEN arg_mode ELSE load_mode(cfg_file)
    /\ pc' = "load"
    /\ UNCHANGED << inputVars, legacyVars, logged, loads, staffVars, workbook, route, cur, loopVars, fileVars,
                    outputs, output_files, exit, error, result, cleanups, impl, max_workers, fetchVars >>

\* no second load_workbook call
LoadAttempts_NoRetry(primary_ok) == <<"data_only">>

\* the load_workbook calls _load_workbook makes when the first one succeeds
\* (primary_ok) or fails
LoadAttempts(primary_ok) ==
    IF primary_ok THEN <<"data_only">> ELSE <<"data_only", "keep_vba">>

\* _load_workbook, as called by process: the outcome of each load_workbook
\* call is the environment's
_load_workbook ==
    /\ pc = "load"
    /\ \/ \E primary_ok, fallback_ok \in BOOLEAN :
            /\ loads' = loads \o LoadAttempts(primary_ok)
            /\ IF primary_ok \/ fallback_ok
               THEN /\ workbook' = file_wb
                    /\ pc' = "decide"
                    /\ UNCHANGED << exit, error >>
               ELSE /\ workbook' = workbook
                    /\ Raise
                    /\ error' = "load"
       \* the logger_callback raises in the message before the first load
       \* (tried = 0) or in the message after its failure (tried = 1)
       \/ \E tried \in {0, 1} :
            /\ logger_callback
            /\ loads' = loads \o SubSeq(<<"data_only">>, 1, tried)
            /\ workbook' = workbook
            /\ Raise
            /\ error' = "callback"
    /\ UNCHANGED << inputVars, legacyVars, logged, mode, staffVars, route, cur, loopVars, fileVars, outputs,
                    output_files, result, cleanups, impl, max_workers, fetchVars >>

\* the split taken from 50 data rows on
TakesSplit_AtThreshold(m, sheet) == m = 1 /\ DataRowCount(sheet) >= SplitThreshold

\* "if mode == 1 and data_row_count > 50"
TakesSplit(m, sheet) == m = 1 /\ DataRowCount(sheet) > SplitThreshold

\* process: the choice between _process_with_split and _process_workbook_inplace
\* (its message can raise); on the whole-sheet path the first statement of
\* _process_workbook_inplace, "staff_db = load_staff_database()", follows
Decide ==
    /\ pc = "decide"
    /\ route' = IF TakesSplit(mode, workbook_active(workbook, file_active)) THEN "split" ELSE "whole"
    /\ \E raises \in EmitRaises(logger_callback) :
        IF raises
        THEN /\ Raise
             /\ error' = "callback"
             /\ UNCHANGED << cur, staffVars >>
        ELSE /\ UNCHANGED << exit, error >>
             /\ IF TakesSplit(mode, workbook_active(workbook, file_active))
                THEN /\ pc' = "split_read"
                     /\ UNCHANGED << cur, staffVars >>
                ELSE /\ pc' = "whole"
                     /\ cur' = 1
                     /\ staff_db' = load_staff_database(staff_file)
                     /\ staff_file' = StoreAfterLoad(staff_file)
                     /\ roster_loads' = roster_loads + 1
    /\ UNCHANGED << inputVars, legacyVars, logged, mode, loads, workbook, loopVars, fileVars, outputs,
                    output_files, result, cleanups, impl, max_workers, fetchVars >>

(***************************************************************************)
(* _process_workbook_inplace / _process_sheet                              *)
(***************************************************************************)
\* a loop over the sheets that ends after its first pass
LoopOver_AfterFirst(index, sheets) == index > 1

\* "for index, sheet in enumerate(sheets, start=1)" has made its last pass
LoopOver(index, sheets) == index > Len(sheets)

\* one pass of the loop of _process_workbook_inplace: _process_sheet up to
\* the call of download_images_concurrently. The rows are checked, the URLs
\* of column 8 collected; without any URL the sheet is done
SheetCollect ==
    /\ pc = "whole"
    /\ ~LoopOver(cur, workbook)
    /\ LET formatted == FormatSheet(workbook[cur])
           sheet == AnnotateRows(formatted, staff_db, staff_file)
           rows == SheetUrlRows(sheet)
           list == [i \in 1..Len(rows) |-> Strip(Str(sheet.cells[rows[i]][h_column]))]
       IN \* the progress message of the sheet raises
          \/ /\ progress_callback \/ logger_callback
             /\ Raise
             /\ error' = "callback"
             /\ UNCHANGED << workbook, roster_loads, urls, url_rows, image_paths, cur,
                             fetchVars >>
          \* the message before the row checks raises
          \/ /\ logger_callback
             /\ workbook' = [workbook EXCEPT ![cur] = formatted]
             /\ UNCHANGED roster_loads
             /\ Raise
             /\ error' = "callback"
             /\ UNCHANGED << urls, url_rows, image_paths, cur, fetchVars >>
          \* one of the messages after the row checks raises
          \/ /\ logger_callback
             /\ workbook' = [workbook EXCEPT ![cur] = sheet]
             /\ roster_loads' = roster_loads + RosterReloads(Tail(formatted.cells), staff_db)
             /\ Raise
             /\ error' = "callback"
             /\ UNCHANGED << urls, url_rows, image_paths, cur, fetchVars >>
          \/ /\ workbook' = [workbook EXCEPT ![cur] = sheet]
             /\ roster_loads' = roster_loads + RosterReloads(Tail(formatted.cells), staff_db)
             /\ urls' = list
             /\ url_rows' = rows
             /\ image_paths' = EmptyMap
             /\ UNCHANGED << exit, error >>
             /\ IF list = <<>>
                THEN /\ cur' = cur + 1
                     /\ pc' = pc
                     /\ UNCHANGED fetchVars
                ELSE /\ cur' = cur
                     /\ pc' = "fetch"
                     /\ Submit(list)
    /\ UNCHANGED << inputVars, legacyVars, logged, mode, loads, staff_file, staff_db, route, header,
                    data_rows, k, download_results, fileVars, outputs, output_files,
                    result, cleanups, impl, max_workers >>

\* download_images_concurrently returns its map to the orchestrating thread
FetchReturn ==
    /\ pc = "fetch"
    /\ FetchComplete
    /\ download_results' = results
    /\ fetching' = FALSE
    /\ k' = 1
    /\ pc' = "normalize"
    /\ UNCHANGED << inputVars, legacyVars, logged, mode, loads, staffVars, workbook, route, cur, urls, url_rows,
                    header, data_rows, image_paths, fileVars, outputs, output_files,
                    exit, error, result, cleanups, impl, max_workers, tasks, tstate, got, gets, done_q,
                    ncollected, results, calls, pools >>

\* the result looked up under the 1-based position of the URL
ResultIndex_OffByOne(idx) == idx

\* "download_results.get(idx - 1)": the key of the result of the idx-th URL
ResultIndex(idx) == idx - 1

\* one pass of "for idx, row in enumerate(url_rows, start=1)"
SheetNormalize ==
    /\ pc = "normalize"
    /\ route = "whole"
    /\ k <= Len(url_rows)
    /\ LET row == url_rows[k]
           image_data == Get(download_results, ResultIndex(k))
           resized == resize_image(image_data)
       IN \* the progress message of the pass raises, or the message
          \* "cannot download" for a result that is absent
          \/ /\ \/ progress_callback /\ UNCHANGED logged
                \/ /\ logger_callback /\ image_data = None
                   /\ logged' = logged \cup {urls[k]}
             /\ Raise
             /\ error' = "callback"
             /\ UNCHANGED << k, image_paths, temp_files, registered, disk, temp_dir >>
          \/ IF image_data = None \/ resized = None
             THEN /\ k' = k + 1
                  \* "cannot download" and the URL, for a result that is absent
                  /\ logged' = IF image_data = None THEN logged \cup {urls[k]} ELSE logged
                  /\ UNCHANGED << pc, exit, error, image_paths, temp_files, registered, disk, temp_dir >>
             ELSE \E how \in WriteOutcomes :
                   /\ UNCHANGED logged
                   /\ disk' = save_temp_image(disk, resized, <<"", row>>, now, how)
                   /\ temp_dir' \in mkdir(temp_dir, how)
                   /\ IF how = "ok"
                      THEN /\ temp_files' = Append(temp_files, TempPath(<<"", row>>, now))
                           /\ registered' = registered \cup {TempPath(<<"", row>>, now)}
                           /\ image_paths' = Put(image_paths, row, TempPath(<<"", row>>, now))
                           /\ k' = k + 1
                           /\ UNCHANGED << pc, exit, error >>
                      ELSE /\ Raise
                           /\ error' = "write"
                           /\ UNCHANGED << k, image_paths, temp_files, registered >>
    /\ UNCHANGED << inputVars, legacyVars, mode, loads, staffVars, workbook, route, cur, urls, url_rows,
                    header, data_rows, download_results, now, warnings, other_files, outputs,
                    output_files, result, cleanups, impl, max_workers, fetchVars >>

\* the rest of _process_sheet: column 8 is cleared, then the images added
SheetEmbed ==
    /\ pc = "normalize"
    /\ route = "whole"
    /\ k > Len(url_rows)
    /\ LET cleared == ClearColumn(workbook[cur], h_column)
           sheet == [cleared EXCEPT !.images =
                        AddImages(@, url_rows, url_rows, image_paths, disk)]
       IN workbook' = [workbook EXCEPT ![cur] = sheet]
    \* the closing message of the sheet can raise
    /\ \E raises \in EmitRaises(logger_callback) :
        IF raises
        THEN /\ Raise
             /\ error' = "callback"
             /\ cur' = cur
        ELSE /\ cur' = cur + 1
             /\ pc' = "whole"
             /\ UNCHANGED << exit, error >>
    /\ UNCHANGED << inputVars, legacyVars, logged, mode, loads, staffVars, route, loopVars, fileVars, outputs,
                    output_files, result, cleanups, impl, max_workers, fetchVars >>

\* "workbook.save(output_path); output_files = [output_path]", the closing
\* message of process (which can raise) and "return output_files"
SaveConverted ==
    /\ pc = "whole"
    /\ LoopOver(cur, workbook)
    /\ \E ok \in BOOLEAN, raises \in EmitRaises(logger_callback) :
        /\ outputs' = workbook_save(outputs, ConvertedName, SavedBook(workbook, disk), ok)
        /\ IF ok
           THEN /\ output_files' = << ConvertedName >>
                /\ IF raises
                   THEN Raise /\ error' = "callback"
                   ELSE exit' = "return" /\ pc' = "cleanup" /\ error' = error
           ELSE /\ ~raises
                /\ Raise
                /\ error' = "save"
                /\ UNCHANGED output_files
    /\ UNCHANGED << inputVars, legacyVars, logged, mode, loads, staffVars, workbook, route, cur, loopVars, fileVars,
                    result, cleanups, impl, max_workers, fetchVars >>

(***************************************************************************)
(* _process_with_split                                                     *)
(***************************************************************************)
\* row_data is the list of the values of columns 1..max_column: its entry j
\* (0-based) is the value of column j + 1
PyIndex(row_data, j) == row_data[j + 1]

\* "cell_value = row_data[7 - 1]"
split_url_index == 7 - 1

\* "for row_index, row_data in enumerate(data_rows)": the 0-based indexes
\* of the data rows whose row_data[7 - 1] is a valid URL, ascending
UrlIndexes(rows) ==
    SelectSeq([i \in 1..Len(rows) |-> i - 1],
              LAMBDA row_index :
                IsUrlCell(PyIndex(rows[row_index + 1], split_url_index)))

\* _process_with_split up to the call of download_images_concurrently
SplitRead ==
    /\ pc = "split_read"
    /\ LET sheet == workbook_active(workbook, file_active)
           rows == [i \in 1..(sheet.max_row - 1) |-> sheet.cells[i + 1]]
           index_map == UrlIndexes(rows)
           list == [i \in 1..Len(index_map) |->
                        Strip(Str(PyIndex(rows[index_map[i] + 1], split_url_index)))]
       IN /\ header' = sheet.cells[1]
          /\ data_rows' = rows
          /\ urls' = list
          /\ url_rows' = index_map
          /\ Submit(list)
    /\ staff_db' = load_staff_database(staff_file)
    /\ staff_file' = StoreAfterLoad(staff_file)
    /\ roster_loads' = roster_loads + 1
    /\ image_paths' = EmptyMap
    /\ pc' = "fetch"
    /\ UNCHANGED << inputVars, legacyVars, logged, mode, loads, workbook, route, cur, k, download_results,
                    fileVars, outputs, output_files, exit, error, result, cleanups, impl, max_workers >>

\* one pass of "for idx, image_data in download_results.items()"
SplitNormalize ==
    /\ pc = "normalize"
    /\ route = "split"
    /\ k <= Cardinality(DOMAIN download_results)
    /\ LET idx == k - 1
           image_data == download_results[idx]
           resized == resize_image(image_data)
           row_index == url_rows[idx + 1]
       IN IF image_data = None \/ resized = None
          THEN /\ k' = k + 1
               /\ UNCHANGED << pc, exit, error, image_paths, temp_files, registered, disk, temp_dir >>
          ELSE \E how \in WriteOutcomes :
                /\ disk' = save_temp_image(disk, resized, <<"split_", row_index>>, now, how)
                /\ temp_dir' \in mkdir(temp_dir, how)
                /\ IF how = "ok"
                   THEN /\ temp_files' =
                             Append(temp_files, TempPath(<<"split_", row_index>>, now))
                        /\ registered' =
                             registered \cup {TempPath(<<"split_", row_index>>, now)}
                        /\ image_paths' =
                             Put(image_paths, row_index, TempPath(<<"split_", row_index>>, now))
                        /\ k' = k + 1
                        /\ UNCHANGED << pc, exit, error >>
                   ELSE /\ Raise
                        /\ error' = "write"
                        /\ UNCHANGED << k, image_paths, temp_files, registered >>
    /\ UNCHANGED << inputVars, legacyVars, logged, mode, loads, staffVars, workbook, route, cur, urls, url_rows,
                    header, data_rows, download_results, now, warnings, other_files, outputs,
                    output_files, result, cleanups, impl, max_workers, fetchVars >>

\* "part_size = 50 ... for part_index, start in enumerate(range(0, total, part_size), 1)"
SplitLoopEnter ==
    /\ pc = "normalize"
    /\ route = "split"
    /\ k > Cardinality(DOMAIN download_results)
    /\ cur' = 1
    /\ pc' = "parts"
    /\ UNCHANGED << inputVars, legacyVars, logged, mode, loads, staffVars, workbook, route, loopVars, fileVars,
                    outputs, output_files, exit, error, result, cleanups, impl, max_workers, fetchVars >>

\* row checks of a part that leave the roster out
SplitAnnotateRows_NoMatch(ws, roster, file) ==
    LET rows == 2..ws.max_row
    IN [ws EXCEPT
          !.max_column = IF ws.max_row >= 2 THEN Max(@, 22) ELSE @,
          !.fills = @ \cup { <<row, 9>> :
                                row \in { r \in rows : ContentFlagged(ws.cells[r][9]) } }
                      \cup { <<row, 7>> :
                                row \in { r \in rows : ActorFlagged(ws.cells[r][7]) } }]

\* _process_with_split, the row checks of a part: the loop over
\* range(2, ws.max_row + 1) with the columns 9, 7, 20 and 22
SplitAnnotateRows(ws, roster, file) ==
    LET rows == 2..ws.max_row
        matched_id(row) == match_staff_id(ws.cells[row][20], roster, file)
    IN [ws EXCEPT
          !.max_column = IF ws.max_row >= 2 THEN Max(@, 22) ELSE @,
          !.fills = @ \cup { <<row, 9>> :
                                row \in { r \in rows : ContentFlagged(ws.cells[r][9]) } }
                      \cup { <<row, 7>> :
                                row \in { r \in rows : ActorFlagged(ws.cells[r][7]) } },
          !.cells = [r \in DOMAIN @ |->
                        IF r \in rows /\ Truthy(matched_id(r))
                        THEN [@[r] EXCEPT ![22] = matched_id(r)]
                        ELSE @[r]]]

\* "start" of the part with the 1-based index part_index
PartStart(part_index) == (part_index - 1) * part_size

\* a part that loses its last row
PartEnd_OffByOne(part_index, total) ==
    Min(PartStart(part_index) + part_size, total) - 1

\* "end = min(start + part_size, total)"
PartEnd(part_index, total) == Min(PartStart(part_index) + part_size, total)

\* the sheet of one part: header, the chunk's rows, the row checks made,
\* column 8 cleared, the images of the chunk's rows added
PartSheet(sheet, hdr, rows, part_index, paths, files, roster, file) ==
    LET start == PartStart(part_index)
        end == PartEnd(part_index, Len(rows))
        chunk == SubSeq(rows, start + 1, end)
        ws == [ title   |-> sheet.title,
                max_row |-> Len(chunk) + 1,
                cells   |-> [r \in 1..(Len(chunk) + 1) |->
                                IF r = 1 THEN hdr ELSE chunk[r - 1]],
                fills   |-> {},
                images  |-> <<>>,
                max_column |-> sheet.max_column,
                centered   |-> [rows |-> 0, cols |-> 0],
                heights    |-> << >>,
                widths     |-> [c \in Cols |-> DefaultWidth] ]
        formatted == FormatSheet(_copy_sheet_formatting(sheet, ws))
        cleared == ClearColumn(SplitAnnotateRows(formatted, roster, file), h_column)
    IN [cleared EXCEPT !.images =
            AddImages(@, [o \in 1..Len(chunk) |-> start + (o - 1)],
                         [o \in 1..Len(chunk) |-> (o - 1) + 2], paths, files)]

\* one pass of the loop over the parts: the part's workbook is built and
\* saved
SplitPart ==
    /\ pc = "parts"
    /\ PartStart(cur) < Len(data_rows)
    /\ \* the progress message of the part raises, or the message after
       \* its row checks
       \/ /\ progress_callback \/ logger_callback
          /\ \E checked \in BOOLEAN :
                roster_loads' = roster_loads +
                    (IF checked
                     THEN RosterReloads(SubSeq(data_rows, PartStart(cur) + 1,
                                               PartEnd(cur, Len(data_rows))), staff_db)
                     ELSE 0)
          /\ Raise
          /\ error' = "callback"
          /\ UNCHANGED << outputs, output_files, cur >>
       \/ \E ok \in BOOLEAN :
            /\ roster_loads' = roster_loads +
                    RosterReloads(SubSeq(data_rows, PartStart(cur) + 1,
                                         PartEnd(cur, Len(data_rows))), staff_db)
            /\ LET ws == PartSheet(workbook_active(workbook, file_active), header, data_rows, cur,
                                   image_paths, disk, staff_db, staff_file)
                   name == output_path(Len(data_rows), cur)
               IN /\ outputs' = workbook_save(outputs, name, SavedBook(<<ws>>, disk), ok)
                  /\ IF ok
                     THEN /\ output_files' = Append(output_files, name)
                          /\ cur' = cur + 1
                          /\ UNCHANGED << pc, exit, error >>
                     ELSE /\ Raise
                          /\ error' = "save"
                          /\ UNCHANGED << output_files, cur >>
    /\ UNCHANGED << inputVars, legacyVars, logged, mode, loads, staff_file, staff_db, workbook, route,
                    loopVars, fileVars, result, cleanups, impl, max_workers, fetchVars >>

\* _process_with_split returns output_files; the closing message of process
\* (which can raise) and "return output_files"
SplitReturn ==
    /\ pc = "parts"
    /\ PartStart(cur) >= Len(data_rows)
    /\ \E raises \in EmitRaises(logger_callback) :
        IF raises
        THEN Raise /\ error' = "callback"
        ELSE exit' = "return" /\ pc' = "cleanup" /\ error' = error
    /\ UNCHANGED << inputVars, legacyVars, logged, mode, loads, staffVars, workbook, route, cur, loopVars, fileVars,
                    outputs, output_files, result, cleanups, impl, max_workers, fetchVars >>

(***************************************************************************)
(* _cleanup, in the finally clause of process                              *)
(***************************************************************************)
Range(seq) == { seq[i] : i \in DOMAIN seq }

\* the files left when the unlink of the files in "stuck" fails
Unlinked(files, listed, stuck) ==
    [p \in (DOMAIN files \ (Range(listed) \ stuck)) |-> files[p]]

\* a check that finds the directory empty whatever it holds
TempDirEmpty_Always(files, others) == TRUE

\* "not any(TEMP_DIR.iterdir())"
TempDirEmpty(files, others) == DOMAIN files = {} /\ others = {}

\* the end of _cleanup, with the files that the unlinks left: "if
\* TEMP_DIR.exists() and not any(TEMP_DIR.iterdir()): shutil.rmtree(TEMP_DIR,
\* ignore_errors=True)"; the rmtree takes what the directory holds, or fails
\* and leaves everything
Sweep(left) ==
    \E swept \in BOOLEAN :
        LET removed == temp_dir /\ TempDirEmpty(left, other_files) /\ swept
        IN /\ disk' = IF removed THEN EmptyMap ELSE left
           /\ other_files' = IF removed THEN {} ELSE other_files
           /\ temp_dir' = (temp_dir /\ ~removed)

\* a cleanup that lets the exception of a failed unlink out
_cleanup_Raises ==
    /\ pc = "cleanup"
    /\ \E stuck \in SUBSET (Range(temp_files) \cap DOMAIN disk) :
        /\ Sweep(Unlinked(disk, temp_files, stuck))
        /\ warnings' = warnings
        /\ result' = IF exit = "return" /\ stuck = {} THEN "returned" ELSE "raised"
    /\ temp_files' = <<>>
    /\ cleanups' = cleanups + 1
    /\ pc' = "done"
    /\ UNCHANGED << inputVars, legacyVars, logged, mode, loads, staffVars, workbook, route, cur, loopVars, now,
                    registered, outputs, output_files, exit, error, impl, max_workers, fetchVars >>

\* "for temp_file in self._temp_files: try: unlink except: warning", and
\* "self._temp_files.clear()"; stuck are the files whose unlink fails
_cleanup ==
    /\ pc = "cleanup"
    /\ \E stuck \in SUBSET (Range(temp_files) \cap DOMAIN disk) :
        /\ Sweep(Unlinked(disk, temp_files, stuck))
        /\ warnings' = warnings \cup stuck
    /\ temp_files' = <<>>
    /\ cleanups' = cleanups + 1
    /\ result' = IF exit = "return" THEN "returned" ELSE "raised"
    /\ pc' = "done"
    /\ UNCHANGED << inputVars, legacyVars, logged, mode, loads, staffVars, workbook, route, cur, loopVars, now,
                    registered, outputs, output_files, exit, error, impl, max_workers, fetchVars >>

\* time.time() advances. It is read only by save_temp_image, and only the
\* distance to the times of the earlier files matters: the clock is taken to
\* stand at 0 until the first file is written
Tick ==
    /\ pc = "normalize"
    /\ DOMAIN disk # {}
    /\ now < MaxClock
    /\ now' = now + 1
    /\ UNCHANGED << inputVars, legacyVars, logged, pc, mode, loads, staffVars, workbook, route, cur, loopVars,
                    temp_files, registered, warnings, disk, temp_dir, other_files, outputs,
                    output_files, exit, error, result, cleanups,
                    impl, max_workers, fetchVars >>

(***************************************************************************)
(* The run of process, with the pool threads of its fetches                *)
(***************************************************************************)
Start ==
    /\ \E i \in 1..Len(tasks) : WorkerStart(i)
    /\ UNCHANGED orchVars

Finish ==
    /\ \E i \in 1..Len(tasks) : \E o \in Fetched(tasks[i]) :
          /\ WorkerFinish(i, o)
          /\ \E warned \in Warned(o) :
                logged' = IF warned THEN logged \cup {tasks[i]} ELSE logged
    /\ UNCHANGED procVars

Collector ==
    /\ Collect
    /\ UNCHANGED orchVars

Next ==
    \/ Begin
    \/ _load_workbook
    \/ Decide
    \/ SheetCollect
    \/ Start
    \/ Finish
    \/ Collector
    \/ FetchReturn
    \/ SheetNormalize
    \/ SheetEmbed
    \/ SaveConverted
    \/ SplitRead
    \/ SplitNormalize
    \/ SplitLoopEnter
    \/ SplitPart
    \/ SplitReturn
    \/ _cleanup
    \/ Tick

Spec == Init /\ [][Next]_vars

\* the steps of the thread that runs process other than the two that read a
\* whole sheet: none of them waits for anything but the pool threads, which
\* Collector and FetchReturn wait for
Orchestrator ==
    \/ Begin
    \/ _load_workbook
    \/ Decide
    \/ Collector
    \/ FetchReturn
    \/ SheetNormalize
    \/ SheetEmbed
    \/ SaveConverted
    \/ SplitNormalize
    \/ SplitLoopEnter
    \/ SplitPart
    \/ SplitReturn
    \/ _cleanup

\* SheetCollect and SplitRead can be taken exactly in these states
SheetCollectEnabled == pc = "whole" /\ ~LoopOver(cur, workbook)
SplitReadEnabled == pc = "split_read"

\* weak fairness of SheetCollect and of SplitRead, with ENABLED written out
\* as the state predicate it is equal to
ReadsFair ==
    /\ ([]<>~SheetCollectEnabled \/ []<><<SheetCollect>>_vars)
    /\ ([]<>~SplitReadEnabled \/ []<><<SplitRead>>_vars)

\* the run under a scheduler that lets the orchestrating thread run, lets a
\* free pool thread take a queued task, and under requests.get coming back
\* (its timeout bounds each fetch); the clock is left free
SpecLive ==
    /\ Init /\ [][Next]_vars
    /\ WF_vars(Orchestrator) /\ ReadsFair /\ WF_vars(Start) /\ WF_vars(Finish)

(***************************************************************************)
(* download_images_concurrently on its own, for the fetcher of the core    *)
(* (executor.map) and the one of the legacy script (as_completed)          *)
(***************************************************************************)
UrlLists == UNION { [1..n -> {Strip(U1), Strip(U2)}] : n \in 0..MaxTasks }

InitFetch ==
    /\ file_wb = <<>>
    /\ file_active = 0
    /\ arg_mode = 0
    /\ cfg_file = NoConfig
    /\ pc = "call"
    /\ mode = 0
    /\ loads = <<>>
    /\ logged = {}
    /\ workbook = <<>>
    /\ route = "none"
    /\ cur = 0
    /\ urls \in UrlLists
    /\ url_rows = <<>>
    /\ header = <<>>
    /\ data_rows = <<>>
    /\ k = 0
    /\ image_paths = EmptyMap
    /\ download_results = EmptyMap
    /\ temp_files = <<>>
    /\ registered = {}
    /\ warnings = {}
    /\ disk = EmptyMap
    /\ temp_dir = FALSE
    /\ other_files = {}
    /\ outputs = <<>>
    /\ output_files = <<>>
    /\ exit = "none"
    /\ result = "none"
    /\ cleanups = 0
    /\ now = 0
    /\ impl \in {"core", "legacy"}
    /\ max_workers \in 1..MaxSmallPool \cup {DefaultWorkers(impl)}
    /\ fetching = FALSE
    /\ tasks = <<>>
    /\ tstate = <<>>
    /\ got = <<>>
    /\ gets = <<>>
    /\ done_q = <<>>
    /\ ncollected = 0
    /\ results = EmptyMap
    /\ calls = 0
    /\ pools = 0
    /\ staff_file \in StaffFiles
    /\ staff_db = Dict(<<>>)
    /\ roster_loads = 0
    /\ temp_path = Null
    /\ main_temp_files = <<>>
    /\ logger_callback = FALSE
    /\ progress_callback = FALSE
    /\ error = "none"
    /\ fn = "none"
    /\ arg = Null
    /\ response = TimedOut
    /\ ret = Null

\* the call: download_images_concurrently(urls)
FetchCall ==
    /\ pc = "call"
    /\ Submit(urls)
    /\ pc' = "fetch_only"
    /\ UNCHANGED << inputVars, legacyVars, logged, mode, loads, staffVars, workbook, route, cur, loopVars, fileVars,
                    outputs, output_files, exit, error, result, cleanups, impl, max_workers >>

\* "return results"
FetchOnlyReturn ==
    /\ pc = "fetch_only"
    /\ FetchComplete
    /\ download_results' = results
    /\ fetching' = FALSE
    /\ pc' = "returned"
    /\ UNCHANGED << inputVars, legacyVars, logged, mode, loads, staffVars, workbook, route, cur, urls, url_rows,
                    header, data_rows, k, image_paths, fileVars, outputs, output_files,
                    exit, error, result, cleanups, impl, max_workers, tasks, tstate, got, gets, done_q,
                    ncollected, results, calls, pools >>

NextFetch ==
    \/ FetchCall
    \/ Start
    \/ Finish
    \/ Collector
    \/ FetchOnlyReturn

SpecFetch == InitFetch /\ [][NextFetch]_vars

(***************************************************************************)
(* The functions of text_utils.py, and download_image, on their own       *)
(***************************************************************************)
\* the parts the sample texts are put together from
SchemeSamples ==
    { HttpScheme, HttpsScheme, Text(<< "H", "T", "T", "P", ":", "/", "/" >>),
      Text(<< "f", "t", "p", ":", "/", "/" >>), <<>> }
HostSamples ==
    { Text(<< "a", ".", "c", "n" >>),
      Text(<< "i", "m", "g", ".", "e", "x", "a", "m", "p", "l", "e", ".", "c", "o", "m" >>),
      Text(<< "x", ".", "c", "o", "m" >>),
      Text(<< "e", "x", "a", "m", "p", "l", "e", ".", "c", "o", "m" >>),
      Text(<< "X", "-", "9", ".", "C", "n", "." >>),
      Text(<< "l", "o", "c", "a", "l", "h", "o", "s", "t" >>),
      Text(<< "1", "0", ".", "0", ".", "0", ".", "1" >>),
      Text(<< "1", "0", ".", "0", ".", "1" >>),
      Text(<< "c", "d", "n", ".", "p", "h", "o", "t", "o", "g", "r", "a", "p", "h", "y" >>),
      Text(<< "i", "n", "t", "r", "a", "n", "e", "t" >>),
      Text(<< "-", "a", ".", "c", "n" >>),
      Text(<< "a", ".", "c" >>),
      <<>> }
PortSamples == { <<>>, Text(<< ":", "8", "0" >>), Text(<< ":" >>) }
TailSamples ==
    { <<>>, Text(<< "/" >>), Text(<< "/", "a", ".", "j", "p", "g" >>),
      Text(<< "?", "q", "=", "1" >>), Text(<< "/", "a", " ", "b" >>), Text(<< "_" >>) }
PadSamples == { <<>>, << Space >>, << 12288, 10 >> }

UrlSamples ==
    { pad \o scheme \o host \o port \o tail \o pad :
        scheme \in SchemeSamples, host \in HostSamples, port \in PortSamples,
        tail \in TailSamples, pad \in PadSamples }

\* names: "Zhang San-001", "John-5829", "Zhang Jing-fu shen", a name in two
\* runs, and characters at the ends of the range [U+4E00, U+9FFF]
ZhangSan == << 24352, 19977 >>
NameSamples ==
    { ZhangSan \o Text(<< "-", "0", "0", "1" >>), John5829,
      ZhangJing \o << Hyphen >> \o FuShen, LiSi,
      << 24352, Space, 97, 19977, 48 >>,
      << FirstChinese - 1, FirstChinese, 45, LastChinese, LastChinese + 1 >>,
      << 12295, 13312 >> }

ValueSamples == { Null, Number(0), Number(7), Number(0 - 5), << Space, Space >> }

TextSamples == UrlSamples \cup NameSamples \cup ValueSamples

InitText ==
    /\ file_wb = <<>>
    /\ file_active = 0
    /\ arg_mode = 0
    /\ cfg_file = NoConfig
    /\ pc = "text"
    /\ mode = 0
    /\ loads = <<>>
    /\ logged = {}
    /\ workbook = <<>>
    /\ route = "none"
    /\ cur = 0
    /\ urls = <<>>
    /\ url_rows = <<>>
    /\ header = <<>>
    /\ data_rows = <<>>
    /\ k = 0
    /\ image_paths = EmptyMap
    /\ download_results = EmptyMap
    /\ temp_files = <<>>
    /\ registered = {}
    /\ warnings = {}
    /\ disk = EmptyMap
    /\ temp_dir = FALSE
    /\ other_files = {}
    /\ outputs = <<>>
    /\ output_files = <<>>
    /\ exit = "none"
    /\ result = "none"
    /\ cleanups = 0
    /\ now = 0
    /\ impl = "core"
    /\ max_workers = DefaultWorkers("core")
    /\ fetching = FALSE
    /\ tasks = <<>>
    /\ tstate = <<>>
    /\ got = <<>>
    /\ gets = <<>>
    /\ done_q = <<>>
    /\ ncollected = 0
    /\ results = EmptyMap
    /\ calls = 0
    /\ pools = 0
    /\ staff_file \in StaffFiles
    /\ staff_db = Dict(<<>>)
    /\ roster_loads = 0
    /\ temp_path = Null
    /\ main_temp_files = <<>>
    /\ logger_callback = FALSE
    /\ progress_callback = FALSE
    /\ error = "none"
    /\ fn = "none"
    /\ \/ arg \in TextSamples /\ response = TimedOut
       \/ arg = Strip(U1) /\ response \in Responses
    /\ ret = Null

\* everything but the call of a text function and what it returned
notTextVars ==
    << file_wb, file_active, arg_mode, cfg_file, logger_callback, progress_callback,
       mode, loads, staffVars, workbook, route, cur, loopVars, fileVars, outputs,
       output_files, exit, error, result, cleanups, impl, max_workers, fetchVars, arg,
       response, legacyVars >>

\* the call f(arg) of a text function, and its return
Call(f, value, warned) ==
    /\ pc = "text"
    /\ fn' = f
    /\ ret' = value
    /\ logged' = IF warned THEN logged \cup {arg} ELSE logged
    /\ pc' = "applied"
    /\ UNCHANGED notTextVars

Call_is_valid_url == Call("is_valid_url", is_valid_url(arg), FALSE)
Call_extract_chinese_name ==
    Call("extract_chinese_name", extract_chinese_name(arg), FALSE)
Call_check_content_length ==
    Call("check_content_length", check_content_length(arg), FALSE)
Call_has_invalid_actor_delimiter ==
    Call("has_invalid_actor_delimiter", has_invalid_actor_delimiter(arg), FALSE)
Call_download_image ==
    /\ is_valid_url(arg)
    /\ Call("download_image", download_image(arg, response), LogsFailure(response))

NextText ==
    \/ Call_is_valid_url
    \/ Call_extract_chinese_name
    \/ Call_check_content_length
    \/ Call_has_invalid_actor_delimiter
    \/ Call_download_image

SpecText == InitText /\ [][NextText]_vars

(***************************************************************************)
(* config_store.py on its own: ensure_mode, load_mode and the first        *)
(* statement of process, in the order a caller makes the calls            *)
(***************************************************************************)
\* "1", "2", "3", "0", " 2 ", "+1", "-1", "02", "12", the Arabic-Indic "2",
\* "1.0", "abc", "True" and the empty text
ModeTexts ==
    { Text(<< "1" >>), Text(<< "2" >>), Text(<< "3" >>), Text(<< "0" >>),
      Text(<< " ", "2", " " >>), << PlusSign, 49 >>, Text(<< "-", "1" >>),
      Text(<< "0", "2" >>), Text(<< "1", "2" >>), << 1634 >>,
      Text(<< "1", ".", "0" >>), Text(<< "a", "b", "c" >>),
      Text(<< "T", "r", "u", "e" >>), <<>> }

ConfigFiles == {NoConfig, BadConfig} \cup { ConfigHolding(t) : t \in ModeTexts }

\* the argument of ensure_mode; 0 stands for None as well
ModeArgs == {0 - 1, 0, 1, 2, 3}

\* the mode argument of process, as the window gives it (0: none given)
ProcessModes == {0, 1, 2}

InitConfig ==
    /\ file_wb = <<>>
    /\ file_active = 0
    /\ arg_mode \in ProcessModes
    /\ cfg_file \in ConfigFiles
    /\ pc = "start"
    /\ mode = 0
    /\ loads = <<>>
    /\ logged = {}
    /\ workbook = <<>>
    /\ route = "none"
    /\ cur = 0
    /\ urls = <<>>
    /\ url_rows = <<>>
    /\ header = <<>>
    /\ data_rows = <<>>
    /\ k = 0
    /\ image_paths = EmptyMap
    /\ download_results = EmptyMap
    /\ temp_files = <<>>
    /\ registered = {}
    /\ warnings = {}
    /\ disk = EmptyMap
    /\ temp_dir = FALSE
    /\ other_files = {}
    /\ outputs = <<>>
    /\ output_files = <<>>
    /\ exit = "none"
    /\ result = "none"
    /\ cleanups = 0
    /\ now = 0
    /\ impl = "core"
    /\ max_workers = DefaultWorkers("core")
    /\ fetching = FALSE
    /\ tasks = <<>>
    /\ tstate = <<>>
    /\ got = <<>>
    /\ gets = <<>>
    /\ done_q = <<>>
    /\ ncollected = 0
    /\ results = EmptyMap
    /\ calls = 0
    /\ pools = 0
    /\ staff_file \in StaffFiles
    /\ staff_db = Dict(<<>>)
    /\ roster_loads = 0
    /\ temp_path = Null
    /\ main_temp_files = <<>>
    /\ logger_callback = FALSE
    /\ progress_callback = FALSE
    /\ error = "none"
    /\ fn = "none"
    /\ arg \in ModeArgs
    /\ response = TimedOut
    /\ ret = <<>>

\* everything but the file, the last call and the values returned so far
notConfigVars ==
    << file_wb, file_active, arg_mode, logger_callback, progress_callback, arg,
       response, legacyVars, pc, mode, loads, logged, staffVars, workbook, route, cur, loopVars,
       fileVars, outputs, output_files, exit, error, result, cleanups, impl,
       max_workers, fetchVars >>

\* ensure_mode(arg): the valid mode is saved and returned, or save_mode
\* raises
Call_ensure_mode ==
    /\ pc = "start"
    /\ fn = "none"
    /\ \E how \in ConfigWriteOutcomes :
        /\ cfg_file' = save_mode(cfg_file, ValidMode(arg), how)
        /\ fn' = IF how = "ok" THEN "ensure_mode" ELSE "ensure_mode raised"
        /\ ret' = IF how = "ok" THEN Append(ret, ValidMode(arg)) ELSE ret
    /\ UNCHANGED notConfigVars

\* load_mode(), first or after ensure_mode
Call_load_mode ==
    /\ pc = "start"
    /\ fn # "load_mode"
    /\ fn' = "load_mode"
    /\ ret' = Append(ret, load_mode(cfg_file))
    /\ UNCHANGED << cfg_file, notConfigVars >>

NextConfig ==
    \/ Call_ensure_mode
    \/ Call_load_mode
    \/ Begin

SpecConfig == InitConfig /\ [][NextConfig]_vars

(***************************************************************************)
(* excel_converter.py: main with convert_urls_to_images and                *)
(* convert_urls_to_images_and_split                                        *)
(***************************************************************************)
\* load_mode_from_config: the option as saved if it is "1" or "2", else 1
load_mode_from_config(cfg) ==
    IF cfg.exists /\ cfg.readable /\ cfg.mode \in { Text(<< "1" >>), Text(<< "2" >>) }
    THEN int(cfg.mode)
    ELSE 1

\* what json.load gives for staff_database.json: a dict, or a value of
\* another type (a list with an entry)
DictRoster(dict) == [kind |-> "dict", items |-> dict]
ListRoster == [kind |-> "list", items |-> Dict(<<>>)]

\* load_staff_database of the script: whatever the file holds, or the
\* default roster, which create_default_staff_database then saves
legacy_load_staff_database(file) ==
    IF file.exists THEN file.data ELSE DictRoster(DEFAULT_STAFF)
LegacyStoreAfterLoad(file) ==
    IF file.exists THEN file ELSE StaffFile(DictRoster(DEFAULT_STAFF))

\* "if staff_db": a dict with an item, a list with an entry
RosterTruthy(roster) == roster.kind = "list" \/ DOMAIN roster.items # {}

\* "if t_cell.value and staff_db: matched_id = match_staff_id(...)" raises
\* (AttributeError of staff_db.get) for a roster that is no dict and a name
\* with a Chinese character in it
MatchRaises(name, roster) ==
    /\ Truthy(name)
    /\ roster.kind = "list"
    /\ extract_chinese_name(name) # <<>>

\* match_staff_id of the script, for a dict: no lookup without a name or
\* without a roster
legacy_match_staff_id(name, roster) ==
    IF ~Truthy(name) \/ ~RosterTruthy(roster) THEN Null
    ELSE LET chinese_name == extract_chinese_name(name)
         IN IF chinese_name = <<>> THEN Null
            ELSE IF chinese_name \in DOMAIN roster.items
                 THEN roster.items[chinese_name] ELSE Null

\* the first row of the row checks whose roster lookup raises, or
\* max_row + 1 if none does
FirstRaisingRow(sheet, roster) ==
    LET raising == { r \in 2..sheet.max_row : MatchRaises(sheet.cells[r][t_column], roster) }
    IN IF raising = {} THEN sheet.max_row + 1
       ELSE CHOOSE r \in raising : \A q \in raising : r <= q

\* the row checks of the script, as far as they get: the fills of the rows
\* up to the one that raises, the ids of the rows before it
LegacyAnnotateRows(sheet, roster) ==
    LET stop == FirstRaisingRow(sheet, roster)
        filled == { r \in 2..sheet.max_row : r <= stop }
        matched == { r \in 2..sheet.max_row : r < stop }
        matched_id(row) == legacy_match_staff_id(sheet.cells[row][t_column], roster)
    IN [sheet EXCEPT
          !.max_column = IF sheet.max_row >= 2 THEN Max(@, v_column) ELSE @,
          !.fills = @ \cup { <<row, i_column>> :
                                row \in { r \in filled : ContentFlagged(sheet.cells[r][i_column]) } }
                      \cup { <<row, g_column>> :
                                row \in { r \in filled : ActorFlagged(sheet.cells[r][g_column]) } },
          !.cells = [r \in DOMAIN @ |->
                        IF r \in matched /\ Truthy(matched_id(r))
                        THEN [@[r] EXCEPT ![v_column] = matched_id(r)]
                        ELSE @[r]]]

LegacyChecksRaise(sheet, roster) == FirstRaisingRow(sheet, roster) <= sheet.max_row

\* "set_cell_alignment(sheet)" and the row heights of 140
LegacyFormatSheet(sheet) == _set_row_heights(_set_cell_alignment(sheet), RowHeight)

\* the except clause of the image loops: "if 'temp_path' in locals() and
\* temp_path is not None and os.path.exists(temp_path): os.remove(temp_path)".
\* temp_path is the local of the function: the path given to the row at hand
\* if the failure came after its assignment, else what an earlier pass of a
\* loop left in it
StalePath(path, assigned) == path

\* the files after the except clause of a pass has run
AfterHandler(files, path, assigned) ==
    LET target == StalePath(path, assigned)
    IN [p \in DOMAIN files \ {target} |-> files[p]]

\* one pass of an image loop for the row "row" with the bytes image_data
\* (not None): what it leaves as << files, temp_path, appended >>, where
\* appended tells that the path was appended to temp_files
ImagePass(files, path, image_data, row, t, how) ==
    IF resize_image(image_data) = None
    THEN \* Image.open raises: temp_path is not assigned in this pass
         << AfterHandler(files, path, FALSE), path, FALSE >>
    ELSE LET new_path == TempPath(<< "", row >>, t)
             written == save_temp_image(files, resize_image(image_data), << "", row >>, t, how)
         IN IF how = "ok"
            THEN << written, new_path, TRUE >>
            ELSE << AfterHandler(written, new_path, TRUE), new_path, FALSE >>

\* main up to the try block: "mode = load_mode_from_config()"
LegacyBegin ==
    /\ pc = "start"
    /\ mode' = load_mode_from_config(cfg_file)
    /\ pc' = "load"
    /\ UNCHANGED << inputVars, legacyVars, logged, loads, staffVars, workbook, route, cur,
                    loopVars, fileVars, outputs, output_files, exit, error, result,
                    cleanups, impl, max_workers, fetchVars >>

\* the two load_workbook calls of main; when both fail main returns from
\* inside the try block
LegacyLoad ==
    /\ pc = "load"
    /\ \E primary_ok, fallback_ok \in BOOLEAN :
        /\ loads' = loads \o LoadAttempts(primary_ok)
        /\ IF primary_ok \/ fallback_ok
           THEN /\ workbook' = file_wb
                /\ pc' = "decide"
                /\ UNCHANGED << exit, error >>
           ELSE /\ workbook' = workbook
                /\ exit' = "return"
                /\ error' = "load"
                /\ pc' = "cleanup"
    /\ UNCHANGED << inputVars, legacyVars, logged, mode, staffVars, route, cur, loopVars,
                    fileVars, outputs, output_files, result, cleanups, impl, max_workers,
                    fetchVars >>

\* "if mode == 1 and data_row_count > 50", and the first statements of the
\* function called: its temp_files list and "staff_db = load_staff_database()"
LegacyDecide ==
    /\ pc = "decide"
    /\ route' = IF TakesSplit(mode, workbook_active(workbook, file_active))
                THEN "split" ELSE "whole"
    /\ pc' = IF TakesSplit(mode, workbook_active(workbook, file_active))
             THEN "split_read" ELSE "whole"
    /\ cur' = 1
    /\ staff_db' = legacy_load_staff_database(staff_file)
    /\ staff_file' = LegacyStoreAfterLoad(staff_file)
    /\ roster_loads' = roster_loads + 1
    /\ UNCHANGED << inputVars, legacyVars, logged, mode, loads, workbook, loopVars, fileVars,
                    outputs, output_files, exit, error, result, cleanups, impl, max_workers,
                    fetchVars >>

\* an exception that leaves the converting function: main's except clause
\* prints it, the finally clause follows
LegacyRaise(what) ==
    /\ exit' = "raise"
    /\ error' = what
    /\ pc' = "cleanup"

\* convert_urls_to_images, one sheet up to the call of
\* download_images_concurrently: formats, row checks, the scan for URLs;
\* "continue" for a sheet without one
LegacySheetCollect ==
    /\ pc = "whole"
    /\ ~LoopOver(cur, workbook)
    /\ LET formatted == LegacyFormatSheet(workbook[cur])
           sheet == LegacyAnnotateRows(formatted, staff_db)
           rows == SheetUrlRows(sheet)
           list == [i \in 1..Len(rows) |-> Strip(Str(sheet.cells[rows[i]][h_column]))]
       IN /\ workbook' = [workbook EXCEPT ![cur] = sheet]
          /\ IF LegacyChecksRaise(formatted, staff_db)
             THEN /\ LegacyRaise("roster")
                  /\ UNCHANGED << urls, url_rows, image_paths, cur, fetchVars >>
             ELSE /\ urls' = list
                  /\ url_rows' = rows
                  /\ image_paths' = EmptyMap
                  /\ UNCHANGED << exit, error >>
                  /\ IF list = <<>>
                     THEN /\ cur' = cur + 1
                          /\ pc' = pc
                          /\ UNCHANGED fetchVars
                     ELSE /\ Submit(list)
                          /\ pc' = "fetch"
                          /\ cur' = cur
    /\ UNCHANGED << inputVars, legacyVars, logged, mode, loads, staffVars, route, header,
                    data_rows, k, download_results, fileVars, outputs, output_files,
                    result, cleanups, impl, max_workers >>

\* one pass of the loop "for idx, url in enumerate(url_list)" of
\* convert_urls_to_images
LegacyNormalize ==
    /\ pc = "normalize"
    /\ route = "whole"
    /\ k <= Len(urls)
    /\ LET row == url_rows[k]
           image_data == Get(download_results, k - 1)
       IN IF image_data = None
          THEN \* "cannot download" and the URL
               /\ logged' = logged \cup {urls[k]}
               /\ UNCHANGED << disk, temp_path, temp_files, registered, image_paths >>
          ELSE \E how \in WriteOutcomes :
                LET pass == ImagePass(disk, temp_path, image_data, row, now, how)
                IN /\ disk' = pass[1]
                   /\ temp_path' = pass[2]
                   /\ temp_files' = IF pass[3] THEN Append(temp_files, pass[2]) ELSE temp_files
                   /\ registered' = IF pass[3] THEN registered \cup {pass[2]} ELSE registered
                   /\ image_paths' = IF pass[3] THEN Put(image_paths, row, pass[2])
                                     ELSE image_paths
                   /\ UNCHANGED logged
    /\ k' = k + 1
    /\ UNCHANGED << inputVars, main_temp_files, pc, mode, loads, staffVars, workbook, route,
                    cur, urls, url_rows, header, data_rows, download_results, warnings,
                    temp_dir, other_files, now, outputs, output_files, exit, error, result,
                    cleanups, impl, max_workers, fetchVars >>

\* the end of a sheet: column 8 cleared, the loop "for idx, row in
\* enumerate(url_rows): temp_path = image_paths[idx]; if temp_path is not
\* None and os.path.exists(temp_path): ... add_image"; the loop leaves
\* the entry of the last URL in temp_path
LegacyEmbed ==
    /\ pc = "normalize"
    /\ route = "whole"
    /\ k > Len(urls)
    /\ LET cleared == ClearColumn(workbook[cur], h_column)
           sheet == [cleared EXCEPT !.images =
                        AddImages(@, url_rows, url_rows, image_paths, disk)]
           last == url_rows[Len(url_rows)]
       IN /\ workbook' = [workbook EXCEPT ![cur] = sheet]
          /\ temp_path' = IF last \in DOMAIN image_paths THEN image_paths[last] ELSE Null
    /\ cur' = cur + 1
    /\ pc' = "whole"
    /\ UNCHANGED << inputVars, main_temp_files, logged, mode, loads, staffVars, route,
                    loopVars, fileVars, outputs, output_files, exit, error, result, cleanups,
                    impl, max_workers, fetchVars >>

\* convert_urls_to_images returns its temp_files to main, which saves the
\* workbook; a save that fails is caught by main's except clause
LegacySave ==
    /\ pc = "whole"
    /\ LoopOver(cur, workbook)
    /\ main_temp_files' = temp_files
    /\ \E ok \in BOOLEAN :
        /\ outputs' = workbook_save(outputs, ConvertedName, SavedBook(workbook, disk), ok)
        /\ output_files' = << ConvertedName >>
        /\ exit' = IF ok THEN "return" ELSE "raise"
        /\ error' = IF ok THEN error ELSE "save"
    /\ pc' = "cleanup"
    /\ UNCHANGED << inputVars, temp_path, logged, mode, loads, staffVars, workbook, route,
                    cur, loopVars, fileVars, result, cleanups, impl, max_workers, fetchVars >>

\* convert_urls_to_images_and_split up to its image loop: header, data_rows
\* and, for the rows whose column 8 holds a valid URL, the 0-based index of
\* the row and the URL
LegacySplitRead ==
    /\ pc = "split_read"
    /\ LET sheet == workbook_active(workbook, file_active)
           rows == SheetUrlRows(sheet)
       IN /\ header' = sheet.cells[1]
          /\ data_rows' = [i \in 1..(sheet.max_row - 1) |-> sheet.cells[i + 1]]
          /\ url_rows' = [i \in 1..Len(rows) |-> rows[i] - 2]
          /\ urls' = [i \in 1..Len(rows) |-> Strip(Str(sheet.cells[rows[i]][h_column]))]
    /\ image_paths' = EmptyMap
    /\ k' = 1
    /\ pc' = "split_fetch"
    /\ UNCHANGED << inputVars, legacyVars, logged, mode, loads, staffVars, workbook, route,
                    cur, download_results, fileVars, outputs, output_files, exit, error,
                    result, cleanups, impl, max_workers, fetchVars >>

\* one pass of "for idx, url_idx in enumerate(url_rows)": download_image(url)
\* and the image made of what it gave
LegacySplitFetch ==
    /\ pc = "split_fetch"
    /\ k <= Len(urls)
    /\ \E image_data \in Fetched(urls[k]) :
        IF image_data = None
        THEN /\ logged' = logged \cup {urls[k]}
             /\ UNCHANGED << disk, temp_path, temp_files, registered, image_paths >>
        ELSE \E how \in WriteOutcomes :
              LET pass == ImagePass(disk, temp_path, image_data, url_rows[k] + 2, now, how)
              IN /\ disk' = pass[1]
                 /\ temp_path' = pass[2]
                 /\ temp_files' = IF pass[3] THEN Append(temp_files, pass[2]) ELSE temp_files
                 /\ registered' = IF pass[3] THEN registered \cup {pass[2]} ELSE registered
                 /\ image_paths' = IF pass[3] THEN Put(image_paths, url_rows[k], pass[2])
                                   ELSE image_paths
                 /\ UNCHANGED logged
    /\ k' = k + 1
    /\ UNCHANGED << inputVars, main_temp_files, pc, mode, loads, staffVars, workbook, route,
                    cur, urls, url_rows, header, data_rows, download_results, warnings,
                    temp_dir, other_files, now, outputs, output_files, exit, error, result,
                    cleanups, impl, max_workers, fetchVars >>

\* "part_count = (total_data + part_size - 1) // part_size"
part_count(total_data) == (total_data + part_size - 1) \div part_size

\* the name of the file of the part with the 1-based index part_index
legacy_output_file(total_data, part_index) ==
    IF part_count(total_data) = 1 THEN ConvertedName ELSE PartName(part_index)

\* the sheet of a part before its row checks: header, the rows of the part,
\* the formats copied, alignment, row heights and the width of column 8
LegacyPartRows(sheet, hdr, rows, part_index) ==
    LET chunk == SubSeq(rows, PartStart(part_index) + 1, PartEnd(part_index, Len(rows)))
        ws == [ title   |-> sheet.title,
                max_row |-> Len(chunk) + 1,
                cells   |-> [r \in 1..(Len(chunk) + 1) |->
                                IF r = 1 THEN hdr ELSE chunk[r - 1]],
                fills   |-> {},
                images  |-> <<>>,
                max_column |-> sheet.max_column,
                centered   |-> [rows |-> 0, cols |-> 0],
                heights    |-> << >>,
                widths     |-> [c \in Cols |-> DefaultWidth] ]
    IN FormatSheet(_copy_sheet_formatting(sheet, ws))

\* the sheet of a part as it is saved: row checks made, column 8 cleared,
\* the images of the rows of the part whose file exists added
LegacyPartSheet(sheet, hdr, rows, part_index, paths, files, roster) ==
    LET start == PartStart(part_index)
        size == PartEnd(part_index, Len(rows)) - start
        cleared == ClearColumn(LegacyAnnotateRows(LegacyPartRows(sheet, hdr, rows, part_index),
                                                  roster), h_column)
    IN [cleared EXCEPT !.images =
            AddImages(@, [i \in 1..size |-> start + (i - 1)],
                         [i \in 1..size |-> (i - 1) + 2], paths, files)]

\* one pass of "for part in range(part_count)": the workbook of the part is
\* built and saved; an exception of its row checks or of "wb.save" leaves
\* the function. The embedding loop leaves the entry of the last row of the
\* part in temp_path
LegacySplitPart ==
    /\ pc = "split_fetch"
    /\ k > Len(urls)
    /\ PartStart(cur) < Len(data_rows)
    /\ LET sheet == workbook_active(workbook, file_active)
           ws == LegacyPartSheet(sheet, header, data_rows, cur, image_paths, disk, staff_db)
           last == PartEnd(cur, Len(data_rows)) - 1
       IN IF LegacyChecksRaise(LegacyPartRows(sheet, header, data_rows, cur), staff_db)
          THEN /\ LegacyRaise("roster")
               /\ UNCHANGED << outputs, output_files, cur, temp_path >>
          ELSE /\ temp_path' = IF last \in DOMAIN image_paths THEN image_paths[last] ELSE Null
               /\ \E ok \in BOOLEAN :
                    /\ outputs' = workbook_save(outputs, legacy_output_file(Len(data_rows), cur),
                                                SavedBook(<<ws>>, disk), ok)
                    /\ IF ok
                       THEN /\ output_files' =
                                   Append(output_files, legacy_output_file(Len(data_rows), cur))
                            /\ cur' = cur + 1
                            /\ UNCHANGED << pc, exit, error >>
                       ELSE /\ LegacyRaise("save")
                            /\ UNCHANGED << output_files, cur >>
    /\ UNCHANGED << inputVars, main_temp_files, logged, mode, loads, staffVars, workbook,
                    route, loopVars, fileVars, result, cleanups, impl, max_workers, fetchVars >>

\* "return temp_files, output_files", assigned to the temp_files and
\* output_files of main; the try block ends
LegacySplitReturn ==
    /\ pc = "split_fetch"
    /\ k > Len(urls)
    /\ PartStart(cur) >= Len(data_rows)
    /\ main_temp_files' = temp_files
    /\ exit' = "return"
    /\ pc' = "cleanup"
    /\ UNCHANGED << inputVars, temp_path, logged, mode, loads, staffVars, workbook, route,
                    cur, loopVars, fileVars, outputs, output_files, error, result, cleanups,
                    impl, max_workers, fetchVars >>

\* the files the finally clause of main goes through: those of its
\* temp_files
Listed(listed, files) == Range(listed)

\* the finally clause of main: "for temp_file in temp_files: try: if
\* os.path.exists(temp_file): os.remove(temp_file) except: warning"; stuck
\* are the files whose removal fails
LegacyCleanup ==
    /\ pc = "cleanup"
    /\ \E stuck \in SUBSET (Listed(main_temp_files, disk) \cap DOMAIN disk) :
        /\ disk' = [p \in DOMAIN disk \ (Listed(main_temp_files, disk) \ stuck) |-> disk[p]]
        /\ warnings' = warnings \cup stuck
    /\ cleanups' = cleanups + 1
    /\ result' = IF exit = "return" THEN "returned" ELSE "raised"
    /\ pc' = "done"
    /\ UNCHANGED << inputVars, legacyVars, logged, mode, loads, staffVars, workbook, route,
                    cur, loopVars, temp_files, registered, temp_dir, other_files, now, outputs,
                    output_files, exit, error, impl, max_workers, fetchVars >>

\* the workbooks of the runs of the script: small ones, with up to two rows
\* and with a second sheet, and ones of 51 data rows with URLs in column 8
\* of the data rows 1, 50 and 51
LegacyMarks == { m \in SUBSET ({1, part_size, part_size + 1} \X {h_column}) : Cardinality(m) <= 2 }
LegacyBooks ==
    { <<SmallSheet("S1", h)>> : h \in [1..2 -> {U1, U2, T1}] }
    \cup { <<SmallSheet("S1", <<h>>), s2>> : h \in {U1, T1}, s2 \in SecondSheets }
    \cup { <<LargeSheet("S1", SplitThreshold + 1, m)>> : m \in LegacyMarks }

\* the roster store: a dict, no file, or (for the workbooks with one URL at
\* most in their first sheet) a list
LegacyStaffFilesOf(book) ==
    { StaffFile(DictRoster(Dict(<< << ZhangJing, Id8525 >> >>))) }
    \cup (IF Len(SheetUrlRows(book[1])) <= 1
          THEN { StaffFile(ListRoster), [exists |-> FALSE, data |-> DictRoster(Dict(<<>>))] }
          ELSE {})

\* config.ini of a run: missing, or holding mode 2
LegacyConfigs == { ConfigOf(0), ConfigOf(2) }

InitLegacy ==
    /\ file_wb \in LegacyBooks
    /\ file_active = 1
    /\ arg_mode = 0
    /\ cfg_file \in LegacyConfigs
    /\ logger_callback = FALSE
    /\ progress_callback = FALSE
    /\ pc = "start"
    /\ mode = 0
    /\ loads = <<>>
    /\ logged = {}
    /\ workbook = <<>>
    /\ route = "none"
    /\ cur = 0
    /\ urls = <<>>
    /\ url_rows = <<>>
    /\ header = <<>>
    /\ data_rows = <<>>
    /\ k = 0
    /\ image_paths = EmptyMap
    /\ download_results = EmptyMap
    /\ temp_files = <<>>
    /\ registered = {}
    /\ warnings = {}
    /\ disk = EmptyMap
    /\ temp_dir = FALSE
    /\ other_files = {}
    /\ outputs = <<>>
    /\ output_files = <<>>
    /\ exit = "none"
    /\ result = "none"
    /\ cleanups = 0
    /\ now = 0
    /\ impl = "legacy"
    /\ max_workers = DefaultWorkers("legacy")
    /\ fetching = FALSE
    /\ tasks = <<>>
    /\ tstate = <<>>
    /\ got = <<>>
    /\ gets = <<>>
    /\ done_q = <<>>
    /\ ncollected = 0
    /\ results = EmptyMap
    /\ calls = 0
    /\ pools = 0
    /\ staff_file \in LegacyStaffFilesOf(file_wb)
    /\ staff_db = DictRoster(Dict(<<>>))
    /\ roster_loads = 0
    /\ temp_path = Null
    /\ main_temp_files = <<>>
    /\ error = "none"
    /\ fn = "none"
    /\ arg = Null
    /\ response = TimedOut
    /\ ret = Null

NextLegacy ==
    \/ LegacyBegin
    \/ LegacyLoad
    \/ LegacyDecide
    \/ LegacySheetCollect
    \/ Start
    \/ Finish
    \/ Collector
    \/ FetchReturn
    \/ LegacyNormalize
    \/ LegacyEmbed
    \/ LegacySave
    \/ LegacySplitRead
    \/ LegacySplitFetch
    \/ LegacySplitPart
    \/ LegacySplitReturn
    \/ LegacyCleanup
    \/ Tick

\* a run of main of excel_converter.py on a file
SpecLegacy == InitLegacy /\ [][NextLegacy]_vars

(***************************************************************************)
(* Properties                                                              *)
(***************************************************************************)
Exited == pc = "done"

\* C1: on every exit path of process, _cleanup has run exactly once, as the
\* last step: before the exit it has not run; at the exit it has run once,
\* self._temp_files is empty, and every file registered during the run is
\* gone from disk unless its unlink failed (and was logged).
CleanupOnEveryExit ==
    /\ ~Exited => cleanups = 0 /\ result = "none"
    /\ Exited =>
        /\ cleanups = 1
        /\ result \in {"returned", "raised"}
        /\ temp_files = <<>>
        /\ \A p \in registered : p \in DOMAIN disk => p \in warnings

\* C1 witness: process raised after transient files had been registered,
\* and the files are gone
CleanupAfterFailure ==
    /\ Exited
    /\ result = "raised"
    /\ registered # {}
    /\ registered \cap DOMAIN disk = {}

\* the rows of sheet s of the input file whose column-8 text is a valid URL
ValidUrlRows(s) ==
    { r \in 2..file_wb[s].max_row : IsUrlCell(file_wb[s].cells[r][h_column]) }

ImageRows(sheet) == { sheet.images[i].row : i \in DOMAIN sheet.images }

\* whole-sheet mode: _process_sheet has just run to its end on sheet cur - 1,
\* which has a valid URL
SheetJustDone ==
    /\ route = "whole"
    /\ pc = "whole"
    /\ cur >= 2
    /\ url_rows # <<>>

\* C2: whole-sheet mode, a sheet with valid URLs in column 8 (at least one)
\* of which any subset fails to fetch or to normalise: after _process_sheet
\* an image is embedded at exactly the rows whose fetch and normalisation
\* succeeded, one image each, column 8 is empty at every data row, and no
\* exception is on its way to the caller; an exception that leaves the
\* processing of a sheet is never that of a row whose fetch or
\* normalisation failed.
PartialFailureEmbeds ==
    /\ SheetJustDone =>
        LET sheet == workbook[cur - 1]
            good == { url_rows[i] : i \in { j \in DOMAIN url_rows : got[j].kind = "img" } }
        IN /\ Range(url_rows) = ValidUrlRows(cur - 1)
           /\ ImageRows(sheet) = good
           /\ Len(sheet.images) = Cardinality(good)
           /\ \A i \in DOMAIN sheet.images : sheet.images[i].col = 8
           /\ \A r \in 2..sheet.max_row : sheet.cells[r][8] = Null
           /\ exit = "none"
    /\ (route = "whole" /\ exit = "raise" /\ cur <= Len(workbook)
          /\ error # "callback") =>
        /\ error = "write"
        /\ k \in DOMAIN got
        /\ got[k].kind = "img"

\* C2 witness: a sheet of two URLs was processed, the fetch of the first
\* URL failed, the image of the second is embedded
PartialFailureSeen ==
    /\ SheetJustDone
    /\ Len(url_rows) = 2
    /\ got[1].kind = "none"
    /\ got[2].kind = "img"
    /\ ImageRows(workbook[cur - 1]) = {url_rows[2]}

\* the active sheet of the input file, and the number of its data rows
SourceSheet == file_wb[file_active]
SourceRows == SourceSheet.max_row - 1

CeilDiv(n, d) == (n + d - 1) \div d

\* the first and last source data row (1-based) of chunk c at chunk size 50
ChunkFirst(c) == 50 * (c - 1) + 1
ChunkLast(c) == Min(50 * c, SourceRows)

\* the output file of chunk c holds one sheet: the source header in row 1
\* and below it the source data rows ChunkFirst(c)..ChunkLast(c), in order
\* (every column but column 8, which the pipeline clears, and column 22,
\* which the reviewer check may set)
ChunkIsSlice(c) ==
    /\ Len(outputs[c].sheets) = 1
    /\ LET ws == outputs[c].sheets[1]
       IN /\ ws.max_row = (ChunkLast(c) - ChunkFirst(c) + 1) + 1
          /\ DOMAIN ws.cells = 1..ws.max_row
          /\ ws.cells[1] = SourceSheet.cells[1]
          /\ \A j \in 1..(ws.max_row - 1) : \A col \in Cols \ {8, 22} :
                ws.cells[j + 1][col] = SourceSheet.cells[ChunkFirst(c) + j][col]

\* C3: split mode, n data rows, chunk size 50: every output sheet written is
\* the slice of its chunk with the source header on top, every chunk but
\* the last holds 50 rows, and when _process_with_split returns there are
\* exactly ceil(n / 50) of them.
SplitPartitions ==
    route = "split" =>
        /\ \A c \in DOMAIN outputs : ChunkIsSlice(c)
        /\ \A c \in DOMAIN outputs :
              c < CeilDiv(SourceRows, 50) => outputs[c].sheets[1].max_row - 1 = 50
        /\ Len(outputs) <= CeilDiv(SourceRows, 50)
        /\ exit = "return" => Len(outputs) = CeilDiv(SourceRows, 50)

\* C3 witness: 101 data rows were split into parts of 50, 50 and 1 rows
SplitOfThreeParts ==
    /\ route = "split"
    /\ exit = "return"
    /\ SourceRows = 101
    /\ Len(outputs) = 3
    /\ outputs[3].sheets[1].max_row = 2

\* the <<sheet row, URL>> pairs given to the fetcher in split mode
SplitSubmitted == { <<url_rows[i] + 2, urls[i]>> : i \in DOMAIN urls }

\* the pairs whole-sheet mode collects from column 8 of the same sheet
ColumnEightPairs ==
    { <<r, Strip(Str(SourceSheet.cells[r][8]))>> : r \in ValidUrlRows(file_active) }

\* C4: in split mode the (data row, URL) pairs submitted to the fetcher are
\* the rows of the active sheet with a valid URL in column 8, with that URL
\* (the code reads row_data[7 - 1], column 7: this is violated).
SplitFetchesColumnEight ==
    (route = "split" /\ pc # "split_read") => SplitSubmitted = ColumnEightPairs

\* C5: process takes the split path if and only if the mode is 1 and the
\* active sheet has more than 50 data rows; otherwise the whole-sheet path.
SplitIffModeOneAndOver50 ==
    route # "none" =>
        /\ mode = (IF arg_mode # 0 THEN arg_mode ELSE load_mode(cfg_file))
        /\ route = (IF mode = 1 /\ SourceRows > 50 THEN "split" ELSE "whole")

\* C5 witness: mode 1 with exactly 50 data rows went the whole-sheet way
ModeOneAtFiftyRows ==
    /\ route = "whole"
    /\ mode = 1
    /\ SourceRows = 50

\* both load_workbook calls of _load_workbook failed
LoadFailed == error = "load"

\* C6: _load_workbook tries the standard load and, when it fails, the
\* fallback load, once; when both fail the error leaves process: no sheet
\* is in memory to be changed, no output file is written, no fetch is
\* issued, and _cleanup still runs.
LoadFailureIsFatal ==
    /\ loads \in {<<>>, <<"data_only">>, <<"data_only", "keep_vba">>}
    /\ LoadFailed =>
        /\ loads = <<"data_only", "keep_vba">>
        /\ exit = "raise"
        /\ route = "none"
        /\ outputs = <<>>
        /\ output_files = <<>>
        /\ calls = 0 /\ tasks = <<>> /\ gets = <<>>
        /\ Exited => result = "raised" /\ cleanups = 1

\* C6 witness: process has raised after both loads failed
LoadFailureRaised ==
    /\ LoadFailed
    /\ Exited
    /\ result = "raised"
    /\ Len(loads) = 2

\* C7: download_images_concurrently returns a map whose keys are exactly
\* 0..N-1 and whose value at key i is what download_image gave for the i-th
\* URL, whatever the order of completion; while it runs, no result is
\* stored under the index of another URL.
ResultsKeyedByIndex ==
    /\ \A key \in DOMAIN results :
        /\ key \in 0..(Len(tasks) - 1)
        /\ tstate[key + 1] = "done"
        /\ results[key] = got[key + 1]
        /\ results[key].url \in {Null, tasks[key + 1]}
    /\ pc = "returned" =>
        /\ DOMAIN download_results = 0..(Len(urls) - 1)
        /\ \A i \in 0..(Len(urls) - 1) :
            /\ download_results[i] = got[i + 1]
            /\ download_results[i].url \in {Null, urls[i + 1]}

\* C7 witness: the legacy fetcher returned three results that had arrived
\* in the order 3, 1, 2, the first and the last of them bytes
OutOfOrderCompletion ==
    /\ pc = "returned"
    /\ impl = "legacy"
    /\ done_q = <<3, 1, 2>>
    /\ urls[1] # urls[3]
    /\ download_results[0].kind = "img"
    /\ download_results[2].kind = "img"

Ascending(images) ==
    \A i, j \in DOMAIN images : i < j => images[i].row < images[j].row

\* the URLs the source row r of sheet s holds
RowUrls(s, r) ==
    { Strip(file_wb[s].cells[r][col]) : col \in { c \in Cols : IsUrlCell(file_wb[s].cells[r][c]) } }

Unfinished == \E i \in DOMAIN tstate : tstate[i] # "done"

\* C9: while a fetch of the submitted batch has not completed, the
\* orchestrating thread is inside download_images_concurrently and no step
\* normalises, writes a transient file, clears column 8, adds an image or
\* saves; the steps of the pool threads (the steps that change a task
\* while the call is in progress) never change a sheet.
BarrierBeforeEmbedding ==
    [][ /\ Unfinished =>
            UNCHANGED << workbook, outputs, temp_files, disk, image_paths, k,
                         download_results, pc >>
        /\ Unfinished' => pc' = "fetch" /\ fetching'
        /\ (fetching /\ (tstate' # tstate \/ got' # got \/ gets' # gets)) =>
            UNCHANGED << workbook, outputs >> ]_vars

\* C9 witness: one result of a batch is stored, another fetch is still
\* running, and the sheet is as it was read
FirstResultWaits ==
    /\ pc = "fetch"
    /\ route = "whole"
    /\ Len(tasks) = 2
    /\ ncollected = 1
    /\ tstate[2] = "running"
    /\ results[0].kind = "img"
    /\ workbook[cur].images = <<>>
    /\ \A r \in 2..workbook[cur].max_row :
          workbook[cur].cells[r][8] = file_wb[cur].cells[r][8]

\* C10: each collected URL gives one task and each task issues exactly one
\* HTTP GET (one fetch call per sheet, one for the whole split run); a
\* failed fetch is not attempted again and its outcome stays absent: the
\* task stays done with None, and the map the call returned is not changed
\* afterwards.
OneGetPerTask ==
    [][ /\ \A i \in DOMAIN gets' :
            /\ gets'[i] <= 1
            /\ (tstate'[i] # "queued") <=> (gets'[i] = 1)
        /\ route' = "split" => calls' <= 1
        /\ route' = "whole" => calls' <= cur'
        /\ \A i \in DOMAIN got :
            (got[i].kind = "none" /\ calls' = calls) =>
                /\ got'[i] = got[i]
                /\ tstate'[i] = "done"
                /\ gets'[i] = gets[i]
        /\ pc # "fetch" => download_results' = download_results ]_vars

\* C10 witness: a split run has ended whose only fetch failed, after one GET
FailedFetchStayedFailed ==
    /\ Exited
    /\ route = "split"
    /\ Len(tasks) = 1
    /\ gets[1] = 1
    /\ download_results[0] = None

\* the cells of the source row that row r of sheet s of output file c was
\* made of: in split mode a row of the active sheet, else the same row
SourceCells(c, s, r) ==
    IF route = "split" THEN SourceSheet.cells[ChunkFirst(c) + r - 1]
    ELSE file_wb[s].cells[r]

OutputSheet(c, s) == outputs[c].sheets[s]

\* P(c, s, r) holds of every data row r of every sheet s of every output
\* file c / of some data row
EveryOutputRow(P(_, _, _)) ==
    \A c \in DOMAIN outputs : \A s \in DOMAIN outputs[c].sheets :
        \A r \in 2..outputs[c].sheets[s].max_row : P(c, s, r)
SomeOutputRow(P(_, _, _)) ==
    \E c \in DOMAIN outputs : \E s \in DOMAIN outputs[c].sheets :
        \E r \in 2..outputs[c].sheets[s].max_row : P(c, s, r)

\* the characters of a text that are Chinese (U+4E00..U+9FFF), in order
ChineseOnly(text) == SelectSeq(text, LAMBDA ch : ch >= 19968 /\ ch <= 40959)

\* C11: with the roster {"Zhang Jing": "8525"}, a data row whose column 20
\* holds "Zhang Jing-fu shen" has "8525" in column 22 of the output, and a
\* row whose column 20 holds "Li Si" has there what it had (the characters
\* of "fu shen" are Chinese too, the name looked up is "Zhang Jing fu shen",
\* which the roster does not hold: this is violated).
RosterLookupFillsColumn22 ==
    EveryOutputRow(LAMBDA c, s, r :
        /\ SourceCells(c, s, r)[20] = ZhangJing \o << Hyphen >> \o FuShen
              => OutputSheet(c, s).cells[r][22] = Id8525
        /\ SourceCells(c, s, r)[20] = LiSi
              => OutputSheet(c, s).cells[r][22] = SourceCells(c, s, r)[22])

\* C12: extract_chinese_name returns the characters of its argument in the
\* range U+4E00..U+9FFF, in their order, and nothing else; the empty text
\* for an empty or None argument.
ExtractKeepsChineseOnly ==
    fn = "extract_chinese_name" =>
        /\ ret = ChineseOnly(Str(arg))
        /\ arg = Null => ret = <<>>
        /\ arg = ZhangSan \o Text(<< "-", "0", "0", "1" >>) => ret = ZhangSan
        /\ arg = John5829 => ret = <<>>

\* C12 witness: a name in two runs, with a space, a letter and a digit
\* between and after them, gave the two characters
ExtractedFromTwoRuns ==
    /\ fn = "extract_chinese_name"
    /\ arg = << 24352, Space, 97, 19977, 48 >>
    /\ ret = << 24352, 19977 >>

\* a cell that holds a value
NonEmpty(value) == value # Null

\* C13: in every output sheet the column-9 cell of a data row has the red
\* fill if and only if the source cell is not empty and the length of its
\* trimmed text is less than 100 (a cell that holds the number 0 is not
\* empty, its text "0" is shorter, and the code does not flag it: this is
\* violated).
ContentFlagIffShort ==
    EveryOutputRow(LAMBDA c, s, r :
        (<< r, 9 >> \in OutputSheet(c, s).fills)
            <=> /\ NonEmpty(SourceCells(c, s, r)[9])
                /\ Len(Strip(Str(SourceCells(c, s, r)[9]))) < 100)

\* the text holds a hyphen
HasHyphen(text) == \E j \in DOMAIN text : text[j] = 45

\* C14: in every output sheet the column-7 cell of a data row has the red
\* fill if and only if the source cell is not empty and its text holds a
\* hyphen.
ActorFlagIffHyphen ==
    EveryOutputRow(LAMBDA c, s, r :
        (<< r, 7 >> \in OutputSheet(c, s).fills)
            <=> /\ NonEmpty(SourceCells(c, s, r)[7])
                /\ HasHyphen(Str(SourceCells(c, s, r)[7])))

\* C14 witness: an output sheet with "Wang Fang-Li Ming" flagged and
\* "Wang Fang" not
ActorFlaggedAndNot ==
    /\ SomeOutputRow(LAMBDA c, s, r :
          /\ SourceCells(c, s, r)[7] = WangFang \o << Hyphen >> \o LiMing
          /\ << r, 7 >> \in OutputSheet(c, s).fills)
    /\ SomeOutputRow(LAMBDA c, s, r :
          /\ SourceCells(c, s, r)[7] = WangFang
          /\ << r, 7 >> \notin OutputSheet(c, s).fills)

\* C15: process raises only when the load of the workbook or the save of an
\* output file failed (a given callback that raises set aside, which is
\* C18's case): violated, a failed write of the transient file of a row
\* leaves process as an exception too.
OnlyLoadAndSaveAbort ==
    (result = "raised" /\ error # "callback") => error \in {"load", "save"}

\* the save of a part failed, in this step or before it
SplitSaveFailed == route = "split" /\ error = "save"

CallbacksAreAdvisory == error # "callback"

NamedHost(h) ==
    LET name == IF h # <<>> /\ h[Len(h)] = Dot THEN SubSeq(h, 1, Len(h) - 1) ELSE h
        labels == Split(name, Dot)
    IN /\ Len(labels) >= 2
       /\ Len(labels[Len(labels)]) >= 2
       /\ All(labels[Len(labels)], Letter)
       /\ \A i \in 1..(Len(labels) - 1) : DomainLabel(labels[i])

\* scheme://host[:port][/path]: the scheme http or https in any case, the
\* host a domain with a top-level label, "localhost" or a dotted quad
HasUrlForm(t) ==
    \E scheme \in {HttpScheme, HttpsScheme} :
        /\ StartsWith(t, scheme)
        /\ LET rest == SubSeq(t, Len(scheme) + 1, Len(t))
               hlen == Span(rest, Letter \cup Digit \cup {Hyphen, Dot})
               host == SubSeq(rest, 1, hlen)
               after == SubSeq(rest, hlen + 1, Len(rest))
               plen == IF after # <<>> /\ after[1] = Colon
                       THEN 1 + Span(Tail(after), Digit) ELSE 0
           IN /\ \/ NamedHost(host)
                 \/ Len(host) = Len(LocalHostName) /\ StartsWith(host, LocalHostName)
                 \/ DottedQuad(host)
              /\ PortPattern(SubSeq(after, 1, plen))
              /\ TailPattern(SubSeq(after, plen + 1, Len(after)))

\* C20: is_valid_url(s) is TRUE if and only if s is a text that, trimmed,
\* has the form scheme://host[:port][/path] with the scheme http or https
\* and the host a domain with a top-level label, "localhost" or a dotted
\* quad (violated: a top-level label of more than six letters is refused).
ValidIffUrlForm ==
    fn = "is_valid_url" =>
        ret = (NonEmpty(arg) /\ ~IsNumber(arg) /\ HasUrlForm(Strip(arg)))

\* a call of download_images_concurrently with no URL has been made
CalledWithNoUrl == calls = 1 /\ tasks = <<>>

Body(url, resp) == [kind |-> resp.content, url |-> url]

FetchedRows ==
    { i \in 0..(SourceRows - 1) :
        \E j \in DOMAIN url_rows :
            /\ url_rows[j] = i
            /\ (j - 1) \in DOMAIN download_results
            /\ download_results[j - 1].kind = "img" }

\* the URL collected for the source data row i
UrlOfRow(i) == urls[CHOOSE j \in DOMAIN url_rows : url_rows[j] = i]

\* C23: in split mode the image fetched for the source data row with the
\* 0-based index i is in the file of chunk floor(i / 50) + 1, anchored at
\* row (i mod 50) + 2 of column 8, and the sheet of a chunk holds no other
\* image than those of its rows.
SplitImagesAtLocalRows ==
    route = "split" =>
        /\ \A i \in FetchedRows :
              LET c == (i \div 50) + 1
              IN c \in DOMAIN outputs =>
                   \E n \in DOMAIN outputs[c].sheets[1].images :
                       outputs[c].sheets[1].images[n] =
                           [col |-> 8, row |-> (i % 50) + 2,
                            data |-> [kind |-> "jpeg", url |-> UrlOfRow(i)]]
        /\ \A c \in DOMAIN outputs :
              Len(outputs[c].sheets[1].images) =
                  Cardinality({ i \in FetchedRows : (i \div 50) + 1 = c })

\* C23 witness: the image of the 50th data row (index 49) is at row 51 of
\* the first part, and the second part is saved without an image
LastRowOfFirstPartEmbedded ==
    /\ route = "split"
    /\ FetchedRows = {49}
    /\ Len(outputs) >= 2
    /\ Len(outputs[1].sheets[1].images) = 1
    /\ outputs[1].sheets[1].images[1].row = 51
    /\ outputs[2].sheets[1].images = <<>>

\* the roster of the run: the dict the store holds
Roster == staff_file.data

\* what each row check makes of the one cell it reads
ShortContent(value) == Truthy(value) /\ Len(Strip(Str(value))) < 100
HyphenActor(value) == NonEmpty(value) /\ HasHyphen(Str(value))
RosterHit(value) == Truthy(value) /\ ChineseOnly(Str(value)) \in DOMAIN Roster

\* the header row of output sheet s of file c, and the row it was made of
HeaderOf(c, s) == OutputSheet(c, s).cells[1]
SourceHeader(s) == IF route = "split" THEN SourceSheet.cells[1] ELSE file_wb[s].cells[1]

\* C24: in every output sheet, for every data row, column 9 is flagged
\* according to column 9 of the row alone, column 7 according to column 7
\* alone, and column 22 is filled according to column 20 and the roster
\* alone, whatever the other two checks found; no other cell is flagged,
\* and the header row is neither flagged nor filled.
RowChecksIndependent ==
    /\ EveryOutputRow(LAMBDA c, s, r :
          /\ (<< r, 9 >> \in OutputSheet(c, s).fills) = ShortContent(SourceCells(c, s, r)[9])
          /\ (<< r, 7 >> \in OutputSheet(c, s).fills) = HyphenActor(SourceCells(c, s, r)[7])
          /\ (OutputSheet(c, s).cells[r][22] # SourceCells(c, s, r)[22])
                => RosterHit(SourceCells(c, s, r)[20])
          /\ RosterHit(SourceCells(c, s, r)[20])
                => OutputSheet(c, s).cells[r][22] # Null)
    /\ \A c \in DOMAIN outputs : \A s \in DOMAIN outputs[c].sheets :
          /\ \A f \in OutputSheet(c, s).fills : f[1] >= 2 /\ f[2] \in {7, 9}
          /\ HeaderOf(c, s) = SourceHeader(s)

\* C24 witness: a data row on which all three checks fired: both cells
\* flagged and column 22 filled
AllThreeChecksFired ==
    SomeOutputRow(LAMBDA c, s, r :
        /\ << r, 9 >> \in OutputSheet(c, s).fills
        /\ << r, 7 >> \in OutputSheet(c, s).fills
        /\ SourceCells(c, s, r)[22] = OldId
        /\ OutputSheet(c, s).cells[r][22] = Id8525)

\* C25: in every output sheet, column 22 of a data row whose column 20 is
\* empty, holds no Chinese character or gives a name that is no key of the
\* roster is what it was in the source; column 22 differs from the source
\* only on a roster hit, and is then the value of the roster.
RosterMissLeavesColumn22 ==
    EveryOutputRow(LAMBDA c, s, r :
        LET name == ChineseOnly(Str(SourceCells(c, s, r)[20]))
            miss == \/ SourceCells(c, s, r)[20] = Null
                    \/ name = <<>>
                    \/ name \notin DOMAIN Roster
        IN /\ miss => OutputSheet(c, s).cells[r][22] = SourceCells(c, s, r)[22]
           /\ (OutputSheet(c, s).cells[r][22] # SourceCells(c, s, r)[22])
                 => ~miss /\ OutputSheet(c, s).cells[r][22] = Roster[name])

\* C25 witness: an output sheet with a row of each kind: column 20 empty,
\* without a Chinese character, with a name that is no key (column 22
\* kept), and with a key (column 22 overwritten)
MissesKeptHitOverwritten ==
    \E c \in DOMAIN outputs : \E s \in DOMAIN outputs[c].sheets :
        LET kept(r) == OutputSheet(c, s).cells[r][22] = SourceCells(c, s, r)[22]
            rows == 2..OutputSheet(c, s).max_row
        IN /\ \E r \in rows : /\ SourceCells(c, s, r)[20] = Null
                                /\ SourceCells(c, s, r)[22] = OldId /\ kept(r)
           /\ \E r \in rows : SourceCells(c, s, r)[20] = John5829 /\ kept(r)
           /\ \E r \in rows : /\ SourceCells(c, s, r)[20] = LiSi
                                /\ SourceCells(c, s, r)[22] = OldId /\ kept(r)
           /\ \E r \in rows : /\ SourceCells(c, s, r)[20] = ZhangJing
                                /\ SourceCells(c, s, r)[22] = OldId
                                /\ OutputSheet(c, s).cells[r][22] = Id8525

IsCentered(sheet, r, c) ==
    \/ r <= sheet.centered.rows /\ c <= sheet.centered.cols
    \/ c = h_column /\ \E j \in DOMAIN sheet.images : sheet.images[j].row = r

\* the cell of row r and column c is written to the file: it has a value or
\* a style
CellInFile(sheet, r, c) ==
    /\ c <= sheet.max_column
    /\ \/ sheet.cells[r][c] # Null
       \/ IsCentered(sheet, r, c)
       \/ << r, c >> \in sheet.fills

\* the columns of the saved sheet up to the last one that has a cell
UsedCols(sheet) ==
    { c \in Cols : \E r \in 1..sheet.max_row : \E d \in Cols :
                        d >= c /\ CellInFile(sheet, r, d) }

\* C27: in every saved output sheet every cell of the rows 1..last and the
\* columns 1..last, the header row included, is centered both ways, every
\* row has the height 140 and column 8 has the width 42
OutputFormatted ==
    \A f \in 1..Len(outputs) : \A s \in 1..Len(outputs[f].sheets) :
        LET sheet == outputs[f].sheets[s]
        IN /\ \A r \in 1..sheet.max_row : \A c \in UsedCols(sheet) :
                 IsCentered(sheet, r, c)
           /\ \A r \in 1..sheet.max_row : sheet.heights[r] = RowHeight
           /\ sheet.widths[h_column] = ColumnWidth

\* _process_sheet has run to its end on sheet s: the sheet is formatted and,
\* if column 8 held a valid URL, column 8 is cleared
SheetProcessed(s) ==
    /\ workbook[s].centered.rows = workbook[s].max_row
    /\ ValidUrlRows(s) # {} =>
          \A r \in 2..workbook[s].max_row : workbook[s].cells[r][h_column] = Null

\* C28: whole-sheet mode: the sheets are processed one at a time in workbook
\* order, each exactly once (the sheet a pass starts on is as loaded, the
\* sheets before it are processed, the sheets after it untouched; a step
\* changes only the sheet of the current pass, and the pass moves on by one
\* sheet only with no fetch of its batch pending), a sheet without a valid
\* URL is followed by the next one, and the one output workbook is saved
\* only after the last sheet, with all the sheets in it
SheetsInOrderThenOneSave ==
    /\ [](route = "whole" =>
            /\ \A s \in 1..Len(workbook) :
                  /\ s > cur => workbook[s] = file_wb[s]
                  /\ (s = cur /\ pc = "whole") => workbook[s] = file_wb[s]
                  /\ s < cur => SheetProcessed(s)
            /\ outputs # <<>> =>
                  /\ cur = Len(workbook) + 1
                  /\ Len(outputs) = 1
                  /\ Len(outputs[1].sheets) = Len(file_wb)
                  /\ \A s \in 1..Len(file_wb) :
                        outputs[1].sheets[s].title = file_wb[s].title)
    /\ [][route = "whole" =>
            /\ cur' # cur => (cur' = cur + 1 /\ ~Unfinished /\ outputs = <<>>)
            /\ \A s \in 1..Len(workbook) :
                  workbook'[s] # workbook[s] => (s = cur /\ outputs = <<>>)
            /\ workbook' # workbook => Len(workbook') = Len(workbook)]_vars

\* a workbook of two sheets, the first without a valid URL, is saved with
\* the image of the second sheet in it
SavedAfterSheetWithoutUrl ==
    /\ route = "whole"
    /\ Len(file_wb) = 2
    /\ ValidUrlRows(1) = {}
    /\ Len(outputs) = 1
    /\ outputs[1].sheets[2].images # <<>>

\* C29: with every fetch coming back, a call of download_images_concurrently
\* that is in progress returns, and every run of process ends, by a return
\* or by raising, with _cleanup done and no transient file left registered
RunTerminates ==
    /\ fetching ~> ~fetching
    /\ <>[](/\ pc = "done"
            /\ result \in {"returned", "raised"}
            /\ cleanups = 1
            /\ temp_files = <<>>)

\* a run that fetched a batch of two or more URLs has ended
RunWithFetchesEnded ==
    /\ pc = "done"
    /\ cleanups = 1
    /\ Len(tasks) >= 2
    /\ ~fetching

\* C30: the mode is always 1 or 2: load_mode gives 1 or 2 for every content
\* of the file; ensure_mode(m) that returns has saved and returned m if m is
\* 1 or 2 and 1 otherwise; a load_mode after it returns the same value; and
\* process without a mode argument takes what load_mode gives
ModeAlwaysOneOrTwo ==
    /\ load_mode(cfg_file) \in {1, 2}
    /\ fn = "ensure_mode" =>
          /\ ret = << IF arg \in {1, 2} THEN arg ELSE 1 >>
          /\ cfg_file = ConfigHolding(Decimal(ret[1]))
    /\ fn = "load_mode" =>
          /\ ret[Len(ret)] \in {1, 2}
          /\ Len(ret) = 2 => ret[2] = ret[1]
    /\ pc = "load" =>
          /\ mode \in {1, 2}
          /\ arg_mode = 0 => mode = load_mode(cfg_file)
          /\ (arg_mode = 0 /\ ret # <<>>) => mode = ret[Len(ret)]

\* ensure_mode(2), then load_mode, then process without a mode: all give 2
EnsuredTwoThenLoadedTwo ==
    /\ arg = 2
    /\ fn = "load_mode"
    /\ ret = << 2, 2 >>
    /\ pc = "load"
    /\ arg_mode = 0
    /\ mode = 2

\* C31: the roster is loaded from the store once per run, whatever the store
\* holds: one load_staff_database call is made when the mode is decided,
\* and the row checks make no further one and leave the store and the
\* local roster as they are
RosterLoadedOnce ==
    /\ [](roster_loads <= 1)
    /\ [][(pc \in {"whole", "parts"}) => UNCHANGED staffVars]_vars

\* C32: in split mode only the active sheet is read: the workbook object
\* stays as it was loaded, the header, the data rows and the URLs are the
\* active sheet's, and every output file holds one sheet, with the active
\* sheet's title and the rows of its chunk of the active sheet
SplitReadsActiveSheetOnly ==
    route = "split" =>
        /\ workbook = file_wb
        /\ header # <<>> =>
              /\ header = SourceSheet.cells[1]
              /\ data_rows = [i \in 1..SourceRows |-> SourceSheet.cells[i + 1]]
              /\ \A i \in DOMAIN urls :
                    \E r \in 2..SourceSheet.max_row : \E c \in Cols :
                        urls[i] = Strip(Str(SourceSheet.cells[r][c]))
        /\ \A c \in DOMAIN outputs :
              /\ Len(outputs[c].sheets) = 1
              /\ outputs[c].sheets[1].title = SourceSheet.title
              /\ ChunkIsSlice(c)

\* C32 witness: the workbook's second sheet is the active one, it was split
\* and both of its parts were saved while the first sheet stayed out
SplitOfSecondSheetSaved ==
    /\ route = "split"
    /\ Len(file_wb) = 2
    /\ file_active = 2
    /\ file_wb[1].title # SourceSheet.title
    /\ Len(urls) = 1
    /\ Len(outputs) = 2
    /\ exit = "return"

\* C33: every fetch failure of a collected URL has a log event that
\* identifies the URL, in whole-sheet mode and in split mode: once the loop
\* over the download results has passed a result that is absent, the URL
\* of that result is among the URLs that the log events identify
FetchFailuresLogged ==
    pc = "normalize" =>
        \A i \in DOMAIN download_results :
            (download_results[i] = None /\ k > i + 1) => urls[i + 1] \in logged

\* C36: within one run no transient path is written twice with different
\* images: a file of the temp directory keeps the content it has until it
\* is deleted, and so every image of the saved workbook of whole-sheet mode
\* holds the image fetched from the URL of its own sheet and row
TransientPathsDistinct ==
    /\ [][\A p \in DOMAIN disk \cap DOMAIN disk' : disk'[p] = disk[p]]_vars
    /\ [](route = "whole" =>
            \A f \in DOMAIN outputs : \A s \in DOMAIN outputs[f].sheets :
                \A j \in DOMAIN outputs[f].sheets[s].images :
                    LET image == outputs[f].sheets[s].images[j]
                    IN image.data.url = Strip(Str(file_wb[s].cells[image.row][h_column])))

\* C37: wherever the run can fail, every transient file that the run has
\* put on disk is in self._temp_files, so that the _cleanup to come deletes
\* it: before _cleanup has run, each file of the temp directory is listed
TransientFilesListed ==
    cleanups = 0 => \A p \in DOMAIN disk : p \in Range(temp_files)

\* C38: in a saved workbook of whole-sheet mode, column 8 of the data rows
\* of a sheet is empty if the sheet held a valid URL in column 8, whatever
\* became of the fetches, and is as it was in the input if the sheet held
\* none; in a saved part of split mode column 8 of every data row is empty
ColumnEightClearedIffUrl ==
    \A f \in DOMAIN outputs : \A s \in DOMAIN outputs[f].sheets :
        LET out == outputs[f].sheets[s]
        IN IF route = "whole"
           THEN LET src == file_wb[s]
                    has_url == \E r \in 2..src.max_row : IsUrlCell(src.cells[r][h_column])
                IN \A r \in 2..src.max_row :
                      out.cells[r][h_column] =
                          IF has_url THEN Null ELSE src.cells[r][h_column]
           ELSE \A r \in 2..out.max_row : out.cells[r][h_column] = Null

\* C38 witness: a saved workbook whose first sheet had a URL, the fetch of
\* which failed, and whose second sheet had a malformed URL only: the
\* first is cleared and without image, the second kept its text
ClearedWithoutImageAndKept ==
    /\ route = "whole"
    /\ Len(outputs) = 1
    /\ Len(outputs[1].sheets) = 2
    /\ file_wb[1].cells[2][h_column] = U1
    /\ outputs[1].sheets[1].cells[2][h_column] = Null
    /\ outputs[1].sheets[1].images = <<>>
    /\ outputs[1].sheets[2].cells[2][h_column] = T1

\* C39: _cleanup deletes only files that the processor registered: a step
\* of _cleanup takes no file of the temp directory that is not of the
\* processor's list and none of the files that are not of the run, it
\* removes the directory only if the directory holds neither after the
\* deletions, and it leaves the input file and every output file
CleanupDeletesOnlyRegistered ==
    [][pc = "cleanup" =>
          /\ \A p \in DOMAIN disk : p \notin DOMAIN disk' => p \in registered
          /\ other_files' = other_files
          /\ (temp_dir /\ ~temp_dir') =>
                /\ other_files = {}
                /\ DOMAIN disk \subseteq registered \ warnings'
          /\ file_wb' = file_wb
          /\ outputs' = outputs]_vars

\* C39 witness: _cleanup has deleted the transient file of the run while
\* the directory held another file: that file and the directory are there
OtherFileKept ==
    /\ pc = "done"
    /\ registered # {}
    /\ DOMAIN disk = {}
    /\ warnings = {}
    /\ other_files # {}
    /\ temp_dir

\* C40: the row checks give a row the same outcome in both modes: in every
\* saved part of a split, each data row has the fill of column 9, the fill
\* of column 7 and the value of column 22 that the row checks of
\* whole-sheet mode give the same row of the source sheet with the same
\* roster
SplitAnnotatesAsWhole ==
    route = "split" =>
        \A c \in DOMAIN outputs :
            LET part == outputs[c].sheets[1]
                whole == AnnotateRows(SourceSheet, staff_db, staff_file)
            IN \A r \in 2..part.max_row :
                  LET src == ChunkFirst(c) + r - 1
                  IN /\ (<< r, 9 >> \in part.fills) = (<< src, 9 >> \in whole.fills)
                     /\ (<< r, 7 >> \in part.fills) = (<< src, 7 >> \in whole.fills)
                     /\ part.cells[r][22] = whole.cells[src][22]

\* C40 witness: the first part of a split is saved; its last row, row 50
\* of the data, has all three outcomes: both fills and the id of the roster
\* in place of the one it came with
LastRowOfPartAnnotated ==
    /\ route = "split"
    /\ Len(outputs) >= 1
    /\ << 51, 9 >> \in outputs[1].sheets[1].fills
    /\ << 51, 7 >> \in outputs[1].sheets[1].fills
    /\ SourceSheet.cells[51][22] = OldId
    /\ outputs[1].sheets[1].cells[51][22] = Id8525

\* C34: after main has finished a run of the script, no transient image
\* file made during the run is left on disk, however the converting
\* function was left: a file that is there is one whose removal the finally
\* clause tried and that failed with a warning
LegacyNoTransientLeft ==
    pc = "done" => \A p \in DOMAIN disk : p \in warnings

\* C35: a failure to decode, resize or encode the image of one row stays
\* with that row: no pass of an image loop of the script removes a
\* transient file that an earlier pass wrote, and every row whose transient
\* file was listed has its image in the file saved
LegacyDecodeFailureLocal ==
    /\ [][(pc \in {"normalize", "split_fetch"}) =>
              \A p \in DOMAIN disk : p \in DOMAIN disk']_vars
    /\ [](\A o \in DOMAIN outputs :
            Len(outputs[o].sheets) = 1 =>
                \A r \in 2..outputs[o].sheets[1].max_row :
                    LET src == IF route = "split" THEN ChunkFirst(o) + r - 1 ELSE r
                    IN (\E p \in registered : p.identifier = << "", src >>) =>
                          \E i \in DOMAIN outputs[o].sheets[1].images :
                              outputs[o].sheets[1].images[i].row = r)

====
